---- MODULE Spec2Model ----
(***************************************************************************)
(* PharmaClear smart contracts (Algorand Python / ARC4) as state machines.  *)
(*                                                                         *)
(* Every contract is an application with its own box storage and global    *)
(* state.  One ABI call is one action: the AVM runs it to completion, and  *)
(* a failed assert (or an arithmetic error, or a rejected inner            *)
(* transaction) aborts the call, discarding every write and every log      *)
(* entry of that call.  `app` says which contract the application under     *)
(* test runs; `last` records the most recent call (its arguments, the      *)
(* error that aborted it or the value it returned, the log entries it      *)
(* emitted); `events` is the application's committed ARC-28 log.           *)
(***************************************************************************)
EXTENDS Integers, Sequences, FiniteSets, TLC

VARIABLES
    app,                    \* the contract class this application runs
    now,                    \* Global.latest_timestamp of the latest block
    events,                 \* committed arc4.emit log, oldest first
    last,                   \* the most recent call and its outcome
    accepted,               \* history: accepted submissions, arguments -> fingerprint
    \* layer0_ingestion.py / layer0_enhanced.py
    claim_hashes, claim_records,
    batch_registry, batch_to_claims, recalled_batches, recall_events,
    expiring_inventory, pharmacy_countries,
    \* layer1_rebate.py
    tier_schedules, accrued_liabilities, total_accrued,
    \* layer2_escrow.py: global state, and the inner transactions committed
    usdc_asset_id, admin_fee_cap, itxns,
    \* layer4_governance.py
    proposals, proposal_votes, proposal_votes_against, proposal_status,
    voter_history, fee_proposals, proposal_counter, quorum_threshold,
    approval_threshold,
    \* layer4_governance.py: the oracle registry
    approved_oracles, oracle_reputation,
    \* layer5_crossborder.py
    supported_currencies, exchange_rates, pharmacy_jurisdictions,
    jurisdiction_fees, cross_border_settlements, conversion_history,
    kyc_verified, aml_flags, jurisdiction_fee_caps,
    \* pharma_clear/contract.py keeps no state; history: the hashes submitted
    submitted_hashes

l0Vars == <<claim_hashes, claim_records, accepted>>
l0eVars == <<batch_registry, batch_to_claims, recalled_batches, recall_events,
             expiring_inventory, pharmacy_countries>>
l1Vars == <<tier_schedules, accrued_liabilities, total_accrued>>
l2Vars == <<usdc_asset_id, admin_fee_cap, itxns>>
l4Vars == <<proposals, proposal_votes, proposal_votes_against, proposal_status,
            voter_history, fee_proposals, proposal_counter, quorum_threshold,
            approval_threshold>>
l4oVars == <<approved_oracles, oracle_reputation>>
l5Vars == <<supported_currencies, exchange_rates, pharmacy_jurisdictions,
            jurisdiction_fees, cross_border_settlements, conversion_history,
            kyc_verified, aml_flags, jurisdiction_fee_caps>>
pcVars == <<submitted_hashes>>
storage == <<l0Vars, l0eVars, l1Vars, l2Vars, l4Vars, l4oVars, l5Vars, pcVars>>
notL0 == <<l1Vars, l2Vars, l4Vars, l4oVars, l5Vars, pcVars>>
notL1 == <<l0Vars, l0eVars, l2Vars, l4Vars, l4oVars, l5Vars, pcVars>>
notL2 == <<l0Vars, l0eVars, l1Vars, l4Vars, l4oVars, l5Vars, pcVars>>
notL4 == <<l0Vars, l0eVars, l1Vars, l2Vars, l4oVars, l5Vars, pcVars>>
notL4o == <<l0Vars, l0eVars, l1Vars, l2Vars, l4Vars, l5Vars, pcVars>>
notL5 == <<l0Vars, l0eVars, l1Vars, l2Vars, l4Vars, l4oVars, pcVars>>
notPc == <<l0Vars, l0eVars, l1Vars, l2Vars, l4Vars, l4oVars, l5Vars>>
vars == <<app, now, events, last, storage>>

(***************************************************************************)
(* Bounds and input sets.                                                  *)
(***************************************************************************)
MaxClaims == 2              \* log entries a ledger run may commit

ClaimIds == {"a", "ab"}
NdcCodes == {"c", "bc"}
Npis == {"n"}
Dates == {1, 2}
OracleSigs == {<<>>, <<1>>, <<2>>}
MaxProvenanceLog == 3       \* log entries an enhanced-ledger run may commit
EnhancedNdcCodes == {"c"}
EnhancedDates == {1}
EnhancedSigs == {<<>>, <<1>>}
BatchNumbers == {"B1", "B2"}
LotNumbers == {"L1"}
Expirations == {150, 200}
Countries == {"US"}
RecallReasons == {"Class I"}
Severities == {1}
Times == {100, 200}

MaxRebateLog == 4           \* log entries a rebate-engine run may commit
Manufacturers == {"MFR1", "MFR2"}
Schedules == {<<1500, 1000, 500>>, <<1000, 0, 250>>}
AccrualKeys == {<<1>>, <<2>>}
WacPrices == {100000000, 19999}
Volumes == {0, 1000, 1001}

MaxEscrowLog == 2           \* log entries an escrow run may commit
AssetIds == {31566704, 10458941}
FeeCaps == {0, 300, 301}
RebateAmounts == {33, 10000}
Pharmacies == {"PHARMACY"}
FeeCollectors == {"PBM"}
SettlementKeys == {<<1>>}
OracleIndexes == {0, 2}
LedgerVerdicts == {"accept", "reject payout", "reject fee"}
AuditedPayouts == {9700}
AuditedFees == {0, 300}

MaxGovLog == 4              \* log entries a governance run may commit
Quorums == {0, 10000}
ApprovalPcts == {4999, 5000, 10001}
ProposalTypes == {"FEE_ADJUSTMENT", "ORACLE_ADD"}
Descriptions == {"d"}
TargetValues == {250}
Proposers == {"V1"}
Voters == {"V1", "V2"}
ProposalIds == {1, 2}

MaxOracleLog == 4           \* log entries an oracle-registry run may commit
Oracles == {"O1", "O2"}
InitialReputations == {50, 150, 1000}
SlashAmounts == {0, 50, 51, 2000}
SlashReasons == {"late"}
\* <<sender, vote_yes, vote_power>>
Ballots == {<<"V1", TRUE, 0>>, <<"V1", TRUE, 6000>>, <<"V1", TRUE, 7000>>,
            <<"V1", FALSE, 2000>>, <<"V1", FALSE, 3000>>, <<"V1", FALSE, 4000>>,
            <<"V2", TRUE, 6000>>, <<"V2", FALSE, 3000>>}

(***************************************************************************)
(* AVM primitives.                                                         *)
(***************************************************************************)
\* A BoxMap is a function on the keys that have a box.
EmptyMap == <<>>
Put(m, k, v) == [x \in (DOMAIN m) \cup {k} |-> IF x = k THEN v ELSE m[x]]

\* UTF-8 bytes of the strings the model submits (str.encode()).
Utf8(s) ==
    CASE s = "a" -> <<97>>
      [] s = "ab" -> <<97, 98>>
      [] s = "c" -> <<99>>
      [] s = "bc" -> <<98, 99>>
      [] s = "n" -> <<110>>
      [] s = "B1" -> <<66, 49>>
      [] s = "B2" -> <<66, 50>>
      [] s = "L1" -> <<76, 49>>

\* A global-state key holds no value until it is first assigned.
Unset == <<>>
IsSet(g) == g # Unset
ValueOf(g) == g[1]
Assigned(v) == <<v>>

\* (a * b) // 10000 on uint64.  TLC's integers have 32 bits, so the product is
\* formed in two parts: a = 10000 q + r gives a*b // 10000 = q*b + (r*b) // 10000.
MulDiv10000(a, b) == (a \div 10000) * b + ((a % 10000) * b) \div 10000

(***************************************************************************)
(* uint64 values beyond the checker's 32 bits: limbs in base 1000, least   *)
(* significant first, without leading zero limbs (zero is <<>>).  They     *)
(* carry the amounts of the cross-border contract, whose products can pass *)
(* 2^64.                                                                   *)
(***************************************************************************)
RECURSIVE Wide(_)
Wide(n) == IF n = 0 THEN <<>> ELSE <<n % 1000>> \o Wide(n \div 1000)

RECURSIVE Trim(_)
Trim(x) == IF x # <<>> /\ x[Len(x)] = 0 THEN Trim(SubSeq(x, 1, Len(x) - 1)) ELSE x

\* Carries propagated through limb sums that may exceed the base.
RECURSIVE Carry(_, _)
Carry(x, c) ==
    IF x = <<>> THEN Wide(c)
    ELSE <<(x[1] + c) % 1000>> \o Carry(Tail(x), (x[1] + c) \div 1000)

RECURSIVE SumTo(_, _)
SumTo(f, n) == IF n = 0 THEN 0 ELSE f[n] + SumTo(f, n - 1)

\* x * y, unbounded.
WideMul(x, y) ==
    IF x = <<>> \/ y = <<>> THEN <<>>
    ELSE LET conv == [k \in 1..(Len(x) + Len(y) - 1) |->
                         SumTo([i \in 1..Len(x) |->
                                   IF k + 1 - i \in 1..Len(y)
                                   THEN x[i] * y[k + 1 - i] ELSE 0],
                               Len(x))]
         IN  Trim(Carry(conv, 0))

\* Long division by a divisor of at most 10^6, most significant limb first.
RECURSIVE DivFrom(_, _, _, _)
DivFrom(x, d, i, rem) ==
    IF i = 0 THEN <<>>
    ELSE LET cur == rem * 1000 + x[i]
         IN  DivFrom(x, d, i - 1, cur % d) \o <<cur \div d>>

\* x // d
WideDiv(x, d) == Trim(DivFrom(x, d, Len(x), 0))

RECURSIVE LessFrom(_, _, _)
LessFrom(x, y, i) ==
    IF i = 0 THEN FALSE
    ELSE IF x[i] # y[i] THEN x[i] < y[i]
    ELSE LessFrom(x, y, i - 1)

\* x < y
WideLess(x, y) ==
    IF Len(x) # Len(y) THEN Len(x) < Len(y) ELSE LessFrom(x, y, Len(x))

RECURSIVE SubFrom(_, _, _, _)
SubFrom(x, y, i, borrow) ==
    IF i > Len(x) THEN <<>>
    ELSE LET yi == IF i <= Len(y) THEN y[i] ELSE 0
             d == x[i] - yi - borrow
         IN  <<IF d < 0 THEN d + 1000 ELSE d>>
                 \o SubFrom(x, y, i + 1, IF d < 0 THEN 1 ELSE 0)

\* x - y for y <= x.
WideSub(x, y) == Trim(SubFrom(x, y, 1, 0))

Pad3(n) ==
    IF n < 10 THEN "00" \o ToString(n)
    ELSE IF n < 100 THEN "0" \o ToString(n) ELSE ToString(n)

RECURSIVE DigitsFrom(_, _)
DigitsFrom(x, i) == IF i = 0 THEN "" ELSE Pad3(x[i]) \o DigitsFrom(x, i - 1)

\* The decimal digits of x, as str() of a Python int gives them.
WideToString(x) ==
    IF x = <<>> THEN "0" ELSE ToString(x[Len(x)]) \o DigitsFrom(x, Len(x) - 1)

\* 2^64 = 18446744073709551616: a uint64 product at or above it stops the AVM.
TwoTo64 == <<616, 551, 709, 73, 744, 446, 18>>

\* The AVM's `*`: the product, or an arithmetic error when it does not fit.
MulOverflows(x, y) == ~WideLess(WideMul(x, y), TwoTo64)

HexDigits == <<"0", "1", "2", "3", "4", "5", "6", "7", "8", "9", "a", "b", "c", "d", "e", "f">>

\* bytes.hex()
RECURSIVE Hex(_)
Hex(b) ==
    IF b = <<>> THEN ""
    ELSE HexDigits[(b[1] \div 16) + 1] \o HexDigits[(b[1] % 16) + 1] \o Hex(Tail(b))

\* n shifted right by k bytes.
RECURSIVE ShiftRightBytes(_, _)
ShiftRightBytes(n, k) == IF k = 0 THEN n ELSE ShiftRightBytes(n \div 256, k - 1)

\* arc4.UInt64.bytes: eight bytes, big-endian.
UInt64Bytes(n) == [i \in 1..8 |-> ShiftRightBytes(n, 8 - i) % 256]

\* arc4.DynamicBytes.bytes: two-byte big-endian length, then the content.
DynamicBytesEncoding(b) == <<Len(b) \div 256, Len(b) % 256>> \o b

\* op.sha256, taken as collision-free: the digest stands for its preimage.
Sha256(data) == [sha256_of |-> data]

NoRet == [none |-> TRUE]

NoLocals == <<>>

\* Mutant: what a call wrote or logged before its failing assert stays.
Aborted_Kept(before, attempted) == attempted

\* A failed assert aborts the whole call: a value the call had assigned, or a
\* log it had extended, before the assert is as it was before the call.
Aborted(before, attempted) == before

\* A call aborted by a failed assert: nothing is written, nothing is logged.
\* `locals` are the local variables the call had computed when it stopped.
RejectWith(op, args, msg, locals) ==
    /\ last' = [op |-> op, args |-> args, err |-> msg, ret |-> NoRet,
                emitted |-> <<>>, locals |-> locals]
    /\ UNCHANGED <<app, now, events, storage>>

Reject(op, args, msg) == RejectWith(op, args, msg, NoLocals)

\* A call that ran to completion: its log entries are committed.
CommitWith(op, args, ret, emitted, locals) ==
    /\ last' = [op |-> op, args |-> args, err |-> "", ret |-> ret,
                emitted |-> emitted, locals |-> locals]
    /\ events' = events \o emitted

Commit(op, args, ret, emitted) == CommitWith(op, args, ret, emitted, NoLocals)

\* A read-only call: it returns and changes nothing.
Return(op, args, ret) ==
    /\ last' = [op |-> op, args |-> args, err |-> "", ret |-> ret,
                emitted |-> <<>>, locals |-> NoLocals]
    /\ UNCHANGED <<app, now, events, storage>>

Event(name, fields) == [name |-> name, fields |-> fields]

(***************************************************************************)
(* Layer 0: ClaimIngestionContract.                                        *)
(***************************************************************************)
AuthenticationMissing == "Oracle signature required"
DuplicateClaim == "Claim already submitted - duplicate rejected"
DuplicateClaimEnhanced == "Claim already submitted"

\* claim_data and claim_key of submit_claim.
ClaimKey(claim_id, ndc_code, pharmacy_npi, dispense_date, oracle_sig) ==
    Sha256(Utf8(claim_id) \o Utf8(ndc_code) \o Utf8(pharmacy_npi)
           \o UInt64Bytes(dispense_date) \o DynamicBytesEncoding(oracle_sig))

ClaimMetadata(claim_id, ndc_code, pharmacy_npi, dispense_date) ==
    "{\"claim_id\":\"" \o claim_id \o "\",\"ndc\":\"" \o ndc_code
        \o "\",\"npi\":\"" \o pharmacy_npi \o "\",\"date\":"
        \o ToString(dispense_date) \o "}"

\* Mutant: the existence table is rebuilt with the new fingerprint alone.
StoreClaim_Alone(hashes, claim_key) == [k \in {claim_key} |-> TRUE]

\* The writes of an accepted submission: existence proof and metadata.
StoreClaim(hashes, claim_key) == Put(hashes, claim_key, TRUE)

submit_claim(claim_id, ndc_code, pharmacy_npi, dispense_date, oracle_sig) ==
    /\ app = "ClaimIngestionContract"
    /\ LET args == [claim_id |-> claim_id, ndc_code |-> ndc_code,
                    pharmacy_npi |-> pharmacy_npi, dispense_date |-> dispense_date,
                    oracle_sig |-> oracle_sig]
           claim_key == ClaimKey(claim_id, ndc_code, pharmacy_npi, dispense_date,
                                 oracle_sig)
       IN  IF ~(Len(oracle_sig) > 0)
           THEN Reject("submit_claim", args, AuthenticationMissing)
           ELSE IF claim_key \in DOMAIN claim_hashes
           THEN RejectWith("submit_claim", args, DuplicateClaim,
                           [claim_key |-> claim_key])
           ELSE /\ Len(events) < MaxClaims
                /\ claim_hashes' = StoreClaim(claim_hashes, claim_key)
                /\ claim_records' =
                       Put(claim_records, claim_key,
                           ClaimMetadata(claim_id, ndc_code, pharmacy_npi, dispense_date))
                /\ accepted' = Put(accepted, args, claim_key)
                /\ Commit("submit_claim", args, claim_key,
                          <<Event("ClaimSubmitted",
                                  <<claim_key, claim_id, ndc_code, pharmacy_npi,
                                    dispense_date>>)>>)
                /\ UNCHANGED <<app, now, l0eVars, notL0>>

verify_claim(claim_key) ==
    /\ app = "ClaimIngestionContract"
    /\ Return("verify_claim", [claim_key |-> claim_key],
              IF claim_key \in DOMAIN claim_hashes THEN claim_hashes[claim_key] ELSE FALSE)

get_claim_metadata(claim_key) ==
    /\ app = "ClaimIngestionContract"
    /\ IF ~(claim_key \in DOMAIN claim_records)
       THEN Reject("get_claim_metadata", [claim_key |-> claim_key], "Claim not found")
       ELSE Return("get_claim_metadata", [claim_key |-> claim_key],
                   claim_records[claim_key])

(***************************************************************************)
(* Layer 0 enhanced: EnhancedClaimIngestionContract.                       *)
(***************************************************************************)
\* claim_data and claim_key of submit_claim_enhanced.
EnhancedClaimKey(claim_id, ndc_code, pharmacy_npi, dispense_date, batch_number, lot_number) ==
    Sha256(Utf8(claim_id) \o Utf8(ndc_code) \o Utf8(pharmacy_npi)
           \o UInt64Bytes(dispense_date) \o Utf8(batch_number) \o Utf8(lot_number))

BatchId(ndc_code, batch_number) == ndc_code \o "-" \o batch_number

EnhancedMetadata(claim_id, ndc_code, pharmacy_npi, dispense_date, batch_number, lot_number, expiration_date, country_code) ==
    "{\"claim_id\":\"" \o claim_id \o "\",\"ndc\":\"" \o ndc_code
        \o "\",\"npi\":\"" \o pharmacy_npi \o "\",\"date\":" \o ToString(dispense_date)
        \o ",\"batch\":\"" \o batch_number \o "\",\"lot\":\"" \o lot_number
        \o "\",\"expiry\":" \o ToString(expiration_date)
        \o ",\"country\":\"" \o country_code \o "\"}"

BatchMetadata(ndc_code, batch_number, current_time) ==
    "{\"ndc\":\"" \o ndc_code \o "\",\"batch\":\"" \o batch_number
        \o "\",\"registered\":" \o ToString(current_time) \o "}"

\* Mutant: a drug that expires at the current timestamp is flagged too.
ProvenanceWarnings_AtExpiry(claim_key, batch_id, ndc_code, pharmacy_npi, expiration_date, recalled, current_time) ==
    (IF batch_id \in DOMAIN recalled
     THEN <<Event("RECALLED_DRUG_DISPENSED",
                  <<claim_key, batch_id, pharmacy_npi,
                    "CRITICAL: Recalled drug dispensed - immediate action required">>)>>
     ELSE <<>>)
    \o (IF expiration_date <= current_time
        THEN <<Event("EXPIRED_DRUG_DISPENSED",
                     <<claim_key, ndc_code, pharmacy_npi, expiration_date>>)>>
        ELSE <<>>)

\* The advisory log entries of a submission, in program order.
ProvenanceWarnings(claim_key, batch_id, ndc_code, pharmacy_npi, expiration_date, recalled, current_time) ==
    (IF batch_id \in DOMAIN recalled
     THEN <<Event("RECALLED_DRUG_DISPENSED",
                  <<claim_key, batch_id, pharmacy_npi,
                    "CRITICAL: Recalled drug dispensed - immediate action required">>)>>
     ELSE <<>>)
    \o (IF expiration_date < current_time
        THEN <<Event("EXPIRED_DRUG_DISPENSED",
                     <<claim_key, ndc_code, pharmacy_npi, expiration_date>>)>>
        ELSE <<>>)

\* Mutant: the new fingerprint is put at the head of the batch's list.
LinkClaim_Prepend(links, batch_id, claim_key) ==
    Put(links, batch_id, <<claim_key>> \o links[batch_id])

\* batch_claims = self.batch_to_claims[batch_id]; batch_claims.append(claim_key);
\* self.batch_to_claims[batch_id] = batch_claims
LinkClaim(links, batch_id, claim_key) ==
    Put(links, batch_id, Append(links[batch_id], claim_key))

submit_claim_enhanced(claim_id, ndc_code, pharmacy_npi, dispense_date, oracle_sig, batch_number, lot_number, expiration_date, country_code) ==
    /\ app = "EnhancedClaimIngestionContract"
    /\ LET args == [claim_id |-> claim_id, ndc_code |-> ndc_code,
                    pharmacy_npi |-> pharmacy_npi, dispense_date |-> dispense_date,
                    oracle_sig |-> oracle_sig, batch_number |-> batch_number,
                    lot_number |-> lot_number, expiration_date |-> expiration_date,
                    country_code |-> country_code]
           claim_key == EnhancedClaimKey(claim_id, ndc_code, pharmacy_npi,
                                         dispense_date, batch_number, lot_number)
           batch_id == BatchId(ndc_code, batch_number)
           current_time == now
           warnings == ProvenanceWarnings(claim_key, batch_id, ndc_code, pharmacy_npi,
                                          expiration_date, recalled_batches,
                                          current_time)
           registry == IF batch_id \in DOMAIN batch_registry
                       THEN batch_registry
                       ELSE Put(batch_registry, batch_id,
                                BatchMetadata(ndc_code, batch_number, current_time))
           links == IF batch_id \in DOMAIN batch_registry
                    THEN batch_to_claims
                    ELSE Put(batch_to_claims, batch_id, <<>>)
       IN  IF ~(Len(oracle_sig) > 0)
           THEN Reject("submit_claim_enhanced", args, AuthenticationMissing)
           ELSE IF claim_key \in DOMAIN claim_hashes
           THEN RejectWith("submit_claim_enhanced", args, DuplicateClaimEnhanced,
                           [claim_key |-> claim_key])
           ELSE /\ Len(events) + Len(warnings) < MaxProvenanceLog
                /\ claim_hashes' = StoreClaim(claim_hashes, claim_key)
                /\ claim_records' =
                       Put(claim_records, claim_key,
                           EnhancedMetadata(claim_id, ndc_code, pharmacy_npi,
                                            dispense_date, batch_number, lot_number,
                                            expiration_date, country_code))
                /\ batch_registry' = registry
                /\ batch_to_claims' = LinkClaim(links, batch_id, claim_key)
                /\ pharmacy_countries' = Put(pharmacy_countries, pharmacy_npi, country_code)
                /\ expiring_inventory' = Put(expiring_inventory, ndc_code, expiration_date)
                /\ accepted' = Put(accepted, args, claim_key)
                /\ Commit("submit_claim_enhanced", args, claim_key,
                          warnings \o
                          <<Event("ClaimSubmittedEnhanced",
                                  <<claim_key, claim_id, ndc_code, batch_id,
                                    country_code, expiration_date>>)>>)
                /\ UNCHANGED <<app, now, recalled_batches, recall_events, notL0>>

\* Mutant: recalling a batch again lifts the recall.
MarkRecalled_Toggle(recalled, batch_id) ==
    Put(recalled, batch_id, ~(batch_id \in DOMAIN recalled /\ recalled[batch_id]))

\* self.recalled_batches[batch_id] = arc4.Bool(True)
MarkRecalled(recalled, batch_id) == Put(recalled, batch_id, TRUE)

\* self.recalled_batches.get(batch_id, arc4.Bool(False))
RecalledFlag(recalled, batch_id) ==
    IF batch_id \in DOMAIN recalled THEN recalled[batch_id] ELSE FALSE

\* Mutant: the count is that of the batches on record.
AffectedCount_Batches(links, batch_id) ==
    IF batch_id \in DOMAIN links THEN Cardinality(DOMAIN links) ELSE 0

\* affected_count of issue_recall, and the value get_batch_claims returns.
AffectedCount(links, batch_id) ==
    IF batch_id \in DOMAIN links THEN Len(links[batch_id]) ELSE 0

issue_recall(ndc_code, batch_number, recall_reason, severity_level) ==
    /\ app = "EnhancedClaimIngestionContract"
    /\ LET args == [ndc_code |-> ndc_code, batch_number |-> batch_number,
                    recall_reason |-> recall_reason, severity_level |-> severity_level]
           batch_id == BatchId(ndc_code, batch_number)
           affected_count == AffectedCount(batch_to_claims, batch_id)
       IN  /\ Len(events) < MaxProvenanceLog
           /\ recalled_batches' = MarkRecalled(recalled_batches, batch_id)
           /\ recall_events' = Put(recall_events, batch_id, recall_reason)
           /\ Commit("issue_recall", args,
                     "Recall issued: " \o ToString(affected_count) \o " claims affected",
                     <<Event("DRUG_RECALL_ISSUED",
                             <<batch_id, recall_reason, severity_level, affected_count,
                               now>>)>>)
           /\ UNCHANGED <<app, now, l0Vars, batch_registry, batch_to_claims,
                          expiring_inventory, pharmacy_countries, notL0>>

get_batch_claims(ndc_code, batch_number) ==
    /\ app = "EnhancedClaimIngestionContract"
    /\ LET batch_id == BatchId(ndc_code, batch_number)
       IN  Return("get_batch_claims",
                  [ndc_code |-> ndc_code, batch_number |-> batch_number],
                  IF batch_id \in DOMAIN batch_to_claims
                  THEN Len(batch_to_claims[batch_id])
                  ELSE 0)

is_batch_recalled(ndc_code, batch_number) ==
    /\ app = "EnhancedClaimIngestionContract"
    /\ LET batch_id == BatchId(ndc_code, batch_number)
       IN  Return("is_batch_recalled",
                  [ndc_code |-> ndc_code, batch_number |-> batch_number],
                  RecalledFlag(recalled_batches, batch_id))

\* The contracts that read Global.latest_timestamp.
TimedApps == {"EnhancedClaimIngestionContract", "EscrowSettlementContract",
              "AuditRailContract", "GovernanceContract",
              "CrossBorderSettlementContract"}

\* A later block: the ledger's timestamp moves forward.
new_block(t) ==
    /\ app \in TimedApps
    /\ t > now
    /\ now' = t
    /\ last' = [op |-> "new_block", args |-> [t |-> t], err |-> "", ret |-> NoRet,
                emitted |-> <<>>, locals |-> NoLocals]
    /\ UNCHANGED <<app, events, storage>>

\* Fingerprints a caller can ask about: those of every base submission.
BaseKeys ==
    {ClaimKey(c, d, p, t, s) : c \in ClaimIds, d \in NdcCodes, p \in Npis,
                                t \in Dates, s \in OracleSigs \ {<<>>}}

InitCommon ==
    /\ now = 100
    /\ events = <<>>
    /\ last = [op |-> "create", args |-> <<>>, err |-> "", ret |-> NoRet,
               emitted |-> <<>>, locals |-> NoLocals]
    /\ accepted = EmptyMap
    /\ claim_hashes = EmptyMap
    /\ claim_records = EmptyMap
    /\ batch_registry = EmptyMap
    /\ batch_to_claims = EmptyMap
    /\ recalled_batches = EmptyMap
    /\ recall_events = EmptyMap
    /\ expiring_inventory = EmptyMap
    /\ pharmacy_countries = EmptyMap
    /\ tier_schedules = EmptyMap
    /\ accrued_liabilities = EmptyMap
    /\ total_accrued = EmptyMap
    /\ usdc_asset_id = Unset
    /\ admin_fee_cap = Unset
    /\ itxns = <<>>
    /\ proposals = EmptyMap
    /\ proposal_votes = EmptyMap
    /\ proposal_votes_against = EmptyMap
    /\ proposal_status = EmptyMap
    /\ voter_history = EmptyMap
    /\ fee_proposals = EmptyMap
    /\ proposal_counter = 0
    /\ quorum_threshold = 10000
    /\ approval_threshold = 6667
    /\ approved_oracles = EmptyMap
    /\ oracle_reputation = EmptyMap
    /\ supported_currencies = EmptyMap
    /\ exchange_rates = EmptyMap
    /\ pharmacy_jurisdictions = EmptyMap
    /\ jurisdiction_fees = EmptyMap
    /\ cross_border_settlements = EmptyMap
    /\ conversion_history = EmptyMap
    /\ kyc_verified = EmptyMap
    /\ aml_flags = EmptyMap
    /\ jurisdiction_fee_caps = EmptyMap
    /\ submitted_hashes = <<>>

InitLedger ==
    /\ app \in {"ClaimIngestionContract", "EnhancedClaimIngestionContract"}
    /\ InitCommon

NextLedger ==
    \/ \E c \in ClaimIds, d \in NdcCodes, p \in Npis, t \in Dates, s \in OracleSigs :
           submit_claim(c, d, p, t, s)
    \/ \E k \in BaseKeys : verify_claim(k)
    \/ \E k \in BaseKeys : get_claim_metadata(k)
    \/ \E c \in ClaimIds, d \in EnhancedNdcCodes, p \in Npis, t \in EnhancedDates,
          s \in EnhancedSigs, b \in BatchNumbers, l \in LotNumbers,
          x \in Expirations, cc \in Countries :
           submit_claim_enhanced(c, d, p, t, s, b, l, x, cc)
    \/ \E d \in EnhancedNdcCodes, b \in BatchNumbers, r \in RecallReasons,
          v \in Severities :
           issue_recall(d, b, r, v)
    \/ \E d \in EnhancedNdcCodes, b \in BatchNumbers : get_batch_claims(d, b)
    \/ \E d \in EnhancedNdcCodes, b \in BatchNumbers : is_batch_recalled(d, b)
    \/ \E t \in Times : new_block(t)

SpecLedger == InitLedger /\ [][NextLedger]_vars

\* The base ledger on its own.
InitClaims ==
    /\ app = "ClaimIngestionContract"
    /\ InitCommon

NextClaims ==
    \/ \E c \in ClaimIds, d \in NdcCodes, p \in Npis, t \in Dates, s \in OracleSigs :
           submit_claim(c, d, p, t, s)
    \/ \E k \in BaseKeys : verify_claim(k)
    \/ \E k \in BaseKeys : get_claim_metadata(k)

SpecClaims == InitClaims /\ [][NextClaims]_vars

\* The enhanced ledger on its own.
InitProvenance ==
    /\ app = "EnhancedClaimIngestionContract"
    /\ InitCommon

NextProvenance ==
    \/ \E c \in ClaimIds, d \in EnhancedNdcCodes, p \in Npis, t \in EnhancedDates,
          s \in EnhancedSigs, b \in BatchNumbers, l \in LotNumbers,
          x \in Expirations, cc \in Countries :
           submit_claim_enhanced(c, d, p, t, s, b, l, x, cc)
    \/ \E d \in EnhancedNdcCodes, b \in BatchNumbers, r \in RecallReasons,
          v \in Severities :
           issue_recall(d, b, r, v)
    \/ \E d \in EnhancedNdcCodes, b \in BatchNumbers : get_batch_claims(d, b)
    \/ \E d \in EnhancedNdcCodes, b \in BatchNumbers : is_batch_recalled(d, b)
    \/ \E t \in Times : new_block(t)

SpecProvenance == InitProvenance /\ [][NextProvenance]_vars

(***************************************************************************)
(* Layer 1: RebateEngineContract.                                          *)
(***************************************************************************)
ManufacturerNotRegistered == "Manufacturer not registered"

\* Mutant: registration resets the running total.
InitTotal_Reset(totals, manufacturer) == Put(totals, manufacturer, 0)

\* register_schedule: "Initialize total accrued to 0 if not exists".
InitTotal(totals, manufacturer) ==
    IF manufacturer \notin DOMAIN totals THEN Put(totals, manufacturer, 0) ELSE totals

\* Mutant: a re-registration keeps the threshold of the schedule it replaces.
StoreSchedule_KeepThreshold(schedules, manufacturer, base_bps, threshold, bonus_bps) ==
    Put(schedules, manufacturer,
        <<base_bps,
          IF manufacturer \in DOMAIN schedules THEN schedules[manufacturer][2]
                                               ELSE threshold,
          bonus_bps>>)

\* self.tier_schedules[manufacturer] = schedule
StoreSchedule(schedules, manufacturer, base_bps, threshold, bonus_bps) ==
    Put(schedules, manufacturer, <<base_bps, threshold, bonus_bps>>)

register_schedule(sender, base_bps, threshold, bonus_bps, excludes_biosimilars) ==
    /\ app = "RebateEngineContract"
    /\ LET manufacturer == sender
           args == [sender |-> sender, base_bps |-> base_bps, threshold |-> threshold,
                    bonus_bps |-> bonus_bps,
                    excludes_biosimilars |-> excludes_biosimilars]
           emitted ==
               (IF excludes_biosimilars
                THEN <<Event("FORMULARY_LOCK_EVENT",
                             <<manufacturer, base_bps,
                               "Biosimilar exclusion detected - regulatory review required">>)>>
                ELSE <<>>)
               \o <<Event("ScheduleRegistered",
                          <<manufacturer, base_bps, threshold, bonus_bps>>)>>
       IN  /\ Len(events) + Len(emitted) <= MaxRebateLog
           /\ tier_schedules' =
                  StoreSchedule(tier_schedules, manufacturer, base_bps, threshold,
                                bonus_bps)
           /\ total_accrued' = InitTotal(total_accrued, manufacturer)
           /\ Commit("register_schedule", args, "Schedule registered successfully",
                     emitted)
           /\ UNCHANGED <<app, now, accrued_liabilities, notL1>>

\* Mutant: the bonus tier already applies at the threshold.
EffectiveRate_AtThreshold(base_bps, threshold, bonus_bps, current_volume) ==
    IF current_volume >= threshold THEN base_bps + bonus_bps ELSE base_bps

\* "Determine applicable rebate rate based on volume tier".
EffectiveRate(base_bps, threshold, bonus_bps, current_volume) ==
    IF current_volume > threshold THEN base_bps + bonus_bps ELSE base_bps

\* rebate_amount = (wac_price * effective_rate) // 10000
RebateAmount(wac_price, effective_rate) == MulDiv10000(wac_price, effective_rate)

\* Mutant: a recomputation replaces the fingerprint's earlier contribution.
AccrueTotal_Replace(totals, liabilities, claim_key, manufacturer, rebate_amount) ==
    Put(totals, manufacturer,
        totals[manufacturer] + rebate_amount
            - (IF claim_key \in DOMAIN liabilities THEN liabilities[claim_key] ELSE 0))

\* "Update manufacturer's total liability".
AccrueTotal(totals, liabilities, claim_key, manufacturer, rebate_amount) ==
    Put(totals, manufacturer, totals[manufacturer] + rebate_amount)

\* Mutant: the registration assert is gone.
HasSchedule_Any(schedules, manufacturer) == TRUE

\* assert manufacturer in self.tier_schedules
HasSchedule(schedules, manufacturer) == manufacturer \in DOMAIN schedules

\* The AVM's failure on reading a box that does not exist.
BoxValueMissing == "box value does not exist"

calculate_accrual(claim_key, manufacturer, wac_price, current_volume) ==
    /\ app = "RebateEngineContract"
    /\ LET args == [claim_key |-> claim_key, manufacturer |-> manufacturer,
                    wac_price |-> wac_price, current_volume |-> current_volume]
       IN  IF ~HasSchedule(tier_schedules, manufacturer)
           THEN Reject("calculate_accrual", args, ManufacturerNotRegistered)
           ELSE IF manufacturer \notin DOMAIN tier_schedules
           THEN Reject("calculate_accrual", args, BoxValueMissing)
           ELSE LET schedule == tier_schedules[manufacturer]
                    base_bps == schedule[1]
                    threshold == schedule[2]
                    bonus_bps == schedule[3]
                    effective_rate ==
                        EffectiveRate(base_bps, threshold, bonus_bps, current_volume)
                    rebate_amount == RebateAmount(wac_price, effective_rate)
                    emitted ==
                        (IF current_volume > threshold
                         THEN <<Event("BonusTierActivated",
                                      <<claim_key, manufacturer, current_volume>>)>>
                         ELSE <<>>)
                        \o <<Event("RebateCalculated",
                                   <<claim_key, manufacturer, wac_price, effective_rate,
                                     rebate_amount>>)>>
                IN  /\ Len(events) + Len(emitted) <= MaxRebateLog
                    /\ accrued_liabilities' =
                           Put(accrued_liabilities, claim_key, rebate_amount)
                    /\ total_accrued' =
                           AccrueTotal(total_accrued, accrued_liabilities, claim_key,
                                       manufacturer, rebate_amount)
                    /\ Commit("calculate_accrual", args, rebate_amount, emitted)
                    /\ UNCHANGED <<app, now, tier_schedules, notL1>>

get_accrual(claim_key) ==
    /\ app = "RebateEngineContract"
    /\ IF ~(claim_key \in DOMAIN accrued_liabilities)
       THEN Reject("get_accrual", [claim_key |-> claim_key], "Claim not calculated")
       ELSE Return("get_accrual", [claim_key |-> claim_key],
                   accrued_liabilities[claim_key])

\* The value get_manufacturer_total returns.
ManufacturerTotal(totals, manufacturer) ==
    IF manufacturer \in DOMAIN totals THEN totals[manufacturer] ELSE 0

get_manufacturer_total(manufacturer) ==
    /\ app = "RebateEngineContract"
    /\ Return("get_manufacturer_total", [manufacturer |-> manufacturer],
              ManufacturerTotal(total_accrued, manufacturer))

InitRebate ==
    /\ app = "RebateEngineContract"
    /\ InitCommon

NextRebate ==
    \/ \E m \in Manufacturers, sch \in Schedules, x \in BOOLEAN :
           register_schedule(m, sch[1], sch[2], sch[3], x)
    \/ \E k \in AccrualKeys, m \in Manufacturers, w \in WacPrices, v \in Volumes :
           calculate_accrual(k, m, w, v)
    \/ \E k \in AccrualKeys : get_accrual(k)
    \/ \E m \in Manufacturers : get_manufacturer_total(m)

SpecRebate == InitRebate /\ [][NextRebate]_vars

(***************************************************************************)
(* Layer 2: EscrowSettlementContract.                                      *)
(***************************************************************************)
FeeCapTooHigh == "Admin fee cannot exceed 3%"
NotInAtomicGroup == "Must be part of atomic group"
InvalidOracleType == "Oracle txn must be payment"
InvalidOracleStake == "Oracle must stake minimum amount"
FeeCapExceeded == "Admin fee exceeds 3% cap"
InvalidReceiver == "Invalid receiver"
InvalidAsset == "Invalid asset"
\* Failures raised by the AVM itself rather than by an assert.
GroupIndexError == "gtxn index beyond the group"
GlobalStateMissing == "global state value does not exist"
InnerTxnRejected == "inner transaction rejected by the ledger"

EscrowAddress == "ESCROW_APP"

\* What the ledger does with the inner transfers of a call (a transfer is
\* rejected when the escrow lacks the funds or the receiver has not opted in):
\* LedgerVerdicts.
\* The transactions a group is made of.  `amount` is the payment amount (zero
\* on a transaction that is not a payment).
ApplCall == [type |-> "appl", amount |-> 0]
OracleTxns == {[type |-> "pay", amount |-> 999], [type |-> "pay", amount |-> 1000],
               [type |-> "axfer", amount |-> 0]}
Groups == {<<ApplCall>>} \cup {<<t, ApplCall>> : t \in OracleTxns}
FundingTxns ==
    {[sender |-> "MFR1", asset_receiver |-> r, xfer_asset |-> a, asset_amount |-> 5000] :
        r \in {EscrowAddress, "PBM"}, a \in AssetIds}

\* Mutant: the cap is checked against 30% instead of 3%.
CapAllowed_Loose(admin_fee_cap_bps) == admin_fee_cap_bps <= 3000

\* initialize: assert admin_fee_cap_bps.native <= 300
CapAllowed(admin_fee_cap_bps) == admin_fee_cap_bps <= 300

initialize(asset_id, admin_fee_cap_bps) ==
    /\ app = "EscrowSettlementContract"
    /\ LET args == [usdc_asset_id |-> asset_id, admin_fee_cap_bps |-> admin_fee_cap_bps]
       IN  IF ~CapAllowed(admin_fee_cap_bps)
           THEN /\ usdc_asset_id' = Aborted(usdc_asset_id, Assigned(asset_id))
                /\ last' = [op |-> "initialize", args |-> args, err |-> FeeCapTooHigh,
                            ret |-> NoRet, emitted |-> <<>>, locals |-> NoLocals]
                /\ UNCHANGED <<app, now, events, admin_fee_cap, itxns, notL2>>
           ELSE /\ usdc_asset_id' = Assigned(asset_id)
                /\ admin_fee_cap' = Assigned(admin_fee_cap_bps)
                /\ Commit("initialize", args, "Settlement contract initialized",
                          <<Event("SettlementInitialized",
                                  <<asset_id, admin_fee_cap_bps>>)>>)
                /\ UNCHANGED <<app, now, itxns, notL2>>

\* One statement of a call with an outcome: an assert, a state read, an inner
\* transaction or a log entry.  `effect` is the inner transaction or log entry.
Step(kind, name, ok, err, effect) ==
    [kind |-> kind, step |-> name, ok |-> ok, err |-> err, effect |-> effect]

AssetTransfer(asset, amount, receiver) ==
    [xfer_asset |-> asset, asset_amount |-> amount, asset_receiver |-> receiver]

\* Mutant: the minimum stake itself is refused.
StakeSufficient_Strict(amount) == amount > 1000

\* assert oracle_txn.amount >= 1000
StakeSufficient(amount) == amount >= 1000

\* Mutant: the gate also refuses a call once the escrow has disbursed.
GateSteps_Once(group, oracle_txn_index) ==
    LET exists == oracle_txn_index < Len(group)
        oracle_txn == group[oracle_txn_index + 1]
    IN  <<Step("assert", "group_size > 1", Len(group) > 1, NotInAtomicGroup, <<>>),
          Step("read", "gtxn.Transaction(oracle_txn_index)", exists, GroupIndexError, <<>>),
          Step("assert", "oracle_txn.type == Payment",
               exists /\ oracle_txn.type = "pay", InvalidOracleType, <<>>),
          Step("assert", "oracle_txn.amount >= 1000",
               exists /\ StakeSufficient(oracle_txn.amount), InvalidOracleStake, <<>>),
          Step("assert", "not settled", itxns = <<>>, "Already settled", <<>>)>>

\* "Atomic group validation" and the oracle transaction checks.
GateSteps(group, oracle_txn_index) ==
    LET exists == oracle_txn_index < Len(group)
        oracle_txn == group[oracle_txn_index + 1]
    IN  <<Step("assert", "group_size > 1", Len(group) > 1, NotInAtomicGroup, <<>>),
          Step("read", "gtxn.Transaction(oracle_txn_index)", exists, GroupIndexError, <<>>),
          Step("assert", "oracle_txn.type == Payment",
               exists /\ oracle_txn.type = "pay", InvalidOracleType, <<>>),
          Step("assert", "oracle_txn.amount >= 1000",
               exists /\ StakeSufficient(oracle_txn.amount), InvalidOracleStake, <<>>)>>

\* admin_fee = (rebate_amount * admin_fee_cap) // 10000
AdminFee(rebate_amount, cap) == MulDiv10000(rebate_amount, cap)

\* max_allowed_fee = (rebate_amount * 300) // 10000
MaxAllowedFee(rebate_amount) == MulDiv10000(rebate_amount, 300)

\* Mutant: the pharmacy is paid the whole rebate.
PharmacyPayout_Full(rebate_amount, admin_fee) == rebate_amount

\* pharmacy_payout = rebate_amount - admin_fee
PharmacyPayout(rebate_amount, admin_fee) == rebate_amount - admin_fee

\* "Fee cap enforcement".
FeeCapSteps(rebate_amount, cap_state) ==
    <<Step("read", "self.admin_fee_cap", IsSet(cap_state), GlobalStateMissing, <<>>),
      Step("assert", "admin_fee <= max_allowed_fee",
           IsSet(cap_state)
               /\ AdminFee(rebate_amount, ValueOf(cap_state)) <= MaxAllowedFee(rebate_amount),
           FeeCapExceeded, <<>>)>>

\* "INNER TRANSACTION 1: Transfer rebate to pharmacy".
PayoutSteps(asset_state, pharmacy_payout, pharmacy_addr, payout_ok) ==
    <<Step("read", "self.usdc_asset_id", IsSet(asset_state), GlobalStateMissing, <<>>),
      Step("itxn", "payout", IsSet(asset_state) /\ payout_ok, InnerTxnRejected,
           IF IsSet(asset_state)
           THEN <<AssetTransfer(ValueOf(asset_state), pharmacy_payout, pharmacy_addr)>>
           ELSE <<>>)>>

\* "INNER TRANSACTION 2: Transfer admin fee to PBM", if admin_fee > 0.
FeeSteps(asset_state, admin_fee, pbm_addr, fee_ok) ==
    IF admin_fee > 0
    THEN <<Step("itxn", "fee", IsSet(asset_state) /\ fee_ok, InnerTxnRejected,
                IF IsSet(asset_state)
                THEN <<AssetTransfer(ValueOf(asset_state), admin_fee, pbm_addr)>>
                ELSE <<>>)>>
    ELSE <<>>

\* Mutant: payout and fee change places in the log entry.
RebateSettled_Swapped(claim_key, pharmacy_addr, pbm_addr, pharmacy_payout, admin_fee, timestamp) ==
    Event("RebateSettled",
          <<claim_key, pharmacy_addr, pbm_addr, admin_fee, pharmacy_payout, timestamp>>)

\* The RebateSettled log entry.
RebateSettled(claim_key, pharmacy_addr, pbm_addr, pharmacy_payout, admin_fee, timestamp) ==
    Event("RebateSettled",
          <<claim_key, pharmacy_addr, pbm_addr, pharmacy_payout, admin_fee, timestamp>>)

\* Mutant: the payout is transferred before the fee cap is enforced.
ClaimRebateProgram_PayFirst(gate, feecap, payout, fee, emit) ==
    gate \o payout \o feecap \o fee \o emit

\* The statements of claim_rebate in program order, each with the outcome it
\* has when it is reached.
ClaimRebateProgram(gate, feecap, payout, fee, emit) ==
    gate \o feecap \o payout \o fee \o emit

\* The statements a call runs: all of them up to the first that fails.
RECURSIVE Executed(_)
Executed(program) ==
    IF program = <<>> THEN <<>>
    ELSE IF ~program[1].ok THEN <<program[1]>>
    ELSE <<program[1]>> \o Executed(Tail(program))

RECURSIVE EffectsOf(_, _)
\* The effects of the steps of one kind, in order.
EffectsOf(steps, kind) ==
    IF steps = <<>> THEN <<>>
    ELSE (IF steps[1].kind = kind THEN steps[1].effect ELSE <<>>)
         \o EffectsOf(Tail(steps), kind)

Failed(steps) == steps # <<>> /\ ~steps[Len(steps)].ok

claim_rebate(claim_key, rebate_amount, pharmacy_addr, pbm_addr, oracle_txn_index, group, verdict) ==
    /\ app = "EscrowSettlementContract"
    /\ LET args == [claim_key |-> claim_key, rebate_amount |-> rebate_amount,
                    pharmacy_addr |-> pharmacy_addr, pbm_addr |-> pbm_addr,
                    oracle_txn_index |-> oracle_txn_index, group |-> group]
           cap == IF IsSet(admin_fee_cap) THEN ValueOf(admin_fee_cap) ELSE 0
           admin_fee == AdminFee(rebate_amount, cap)
           pharmacy_payout == PharmacyPayout(rebate_amount, admin_fee)
           program ==
               ClaimRebateProgram(
                   GateSteps(group, oracle_txn_index),
                   FeeCapSteps(rebate_amount, admin_fee_cap),
                   PayoutSteps(usdc_asset_id, pharmacy_payout, pharmacy_addr,
                               verdict # "reject payout"),
                   FeeSteps(usdc_asset_id, admin_fee, pbm_addr, verdict # "reject fee"),
                   <<Step("emit", "RebateSettled", TRUE, "",
                          <<RebateSettled(claim_key, pharmacy_addr, pbm_addr,
                                          pharmacy_payout, admin_fee, now)>>)>>)
           steps == Executed(program)
       IN  IF Failed(steps)
           THEN RejectWith("claim_rebate", args, steps[Len(steps)].err,
                           [steps |-> steps])
           ELSE /\ itxns' = itxns \o EffectsOf(steps, "itxn")
                /\ CommitWith("claim_rebate", args,
                              "Settlement complete: " \o ToString(pharmacy_payout)
                                  \o " to pharmacy, " \o ToString(admin_fee) \o " fee",
                              EffectsOf(steps, "emit"), [steps |-> steps])
                /\ UNCHANGED <<app, now, usdc_asset_id, admin_fee_cap, notL2>>

fund_escrow(payment) ==
    /\ app = "EscrowSettlementContract"
    /\ LET args == [payment |-> payment]
       IN  IF ~(payment.asset_receiver = EscrowAddress)
           THEN Reject("fund_escrow", args, InvalidReceiver)
           ELSE IF ~IsSet(usdc_asset_id)
           THEN Reject("fund_escrow", args, GlobalStateMissing)
           ELSE IF ~(payment.xfer_asset = ValueOf(usdc_asset_id))
           THEN Reject("fund_escrow", args, InvalidAsset)
           ELSE /\ Commit("fund_escrow", args,
                          "Escrow funded: " \o ToString(payment.asset_amount) \o " microUSD",
                          <<Event("EscrowFunded",
                                  <<payment.sender, payment.asset_amount>>)>>)
                /\ UNCHANGED <<app, now, l2Vars, notL2>>

(***************************************************************************)
(* Layer 3: AuditRailContract (stateless: it only emits).                  *)
(***************************************************************************)
log_settlement(claim_key, pharmacy_addr, pharmacy_payout, pbm_fee) ==
    /\ app = "AuditRailContract"
    /\ LET args == [claim_key |-> claim_key, pharmacy_addr |-> pharmacy_addr,
                    pharmacy_payout |-> pharmacy_payout, pbm_fee |-> pbm_fee]
           timestamp == now
           total_amount == pharmacy_payout + pbm_fee
       IN  /\ Commit("log_settlement", args,
                     "Settlement audit logged at " \o ToString(timestamp),
                     <<Event("SettlementAudit",
                             <<claim_key, pharmacy_addr, pharmacy_payout, pbm_fee,
                               total_amount, timestamp>>)>>)
           /\ UNCHANGED <<app, now, storage>>

InitEscrow ==
    /\ app \in {"EscrowSettlementContract", "AuditRailContract"}
    /\ InitCommon

\* The calls of the escrow and audit contracts.
EscrowCalls ==
    \/ \E a \in AssetIds, c \in FeeCaps :
           initialize(a, c) /\ Len(events') <= MaxEscrowLog
    \/ \E k \in SettlementKeys, r \in RebateAmounts, ph \in Pharmacies,
          pbm \in FeeCollectors, i \in OracleIndexes, g \in Groups,
          v \in LedgerVerdicts :
           claim_rebate(k, r, ph, pbm, i, g, v) /\ Len(events') <= MaxEscrowLog
    \/ \E p \in FundingTxns : fund_escrow(p) /\ Len(events') <= MaxEscrowLog
    \/ \E k \in SettlementKeys, ph \in Pharmacies, po \in AuditedPayouts,
          f \in AuditedFees :
           log_settlement(k, ph, po, f) /\ Len(events') <= MaxEscrowLog

NextEscrow ==
    \/ EscrowCalls
    \/ \E t \in Times : new_block(t)

SpecEscrow == InitEscrow /\ [][NextEscrow]_vars

(***************************************************************************)
(* Layer 4: GovernanceContract.                                            *)
(***************************************************************************)
ApprovalTooHigh == "Approval cannot exceed 100%"
ApprovalTooLow == "Approval must be at least 50%"
ProposalNotFound == "Proposal not found"
ProposalNotActive == "Proposal not active"
NoVotingPower == "No voting power"
AlreadyFinalized == "Already finalized"
DivisionByZero == "/ 0"

\* BoxMap.get(key, default)
Get(m, k, default) == IF k \in DOMAIN m THEN m[k] ELSE default

\* Mutant: a proposal that missed its quorum still counts as open.
ProposalActive_UntilDecided(statuses, proposal_id) ==
    statuses[proposal_id] \in {"ACTIVE", "QUORUM_NOT_MET"}

\* self.proposal_status[proposal_id].native == "ACTIVE"
ProposalActive(statuses, proposal_id) == statuses[proposal_id] = "ACTIVE"

\* Mutant: the counter is read but not incremented.
NextProposalId_Stale(counter) == IF counter = 0 THEN 1 ELSE counter

\* proposal_id = arc4.UInt64(self.proposal_counter.native + 1)
NextProposalId(counter) == counter + 1

\* Mutant: a vote without power is let through.
HasVotingPower_Any(vote_power) == vote_power >= 0

\* assert vote_power.native > 0
HasVotingPower(vote_power) == vote_power > 0

\* Mutant: the vote replaces the tally.
AddVotes_Overwrite(tallies, proposal_id, vote_power) ==
    Put(tallies, proposal_id, vote_power)

\* tallies[proposal_id] = tallies.get(proposal_id, 0) + vote_power
AddVotes(tallies, proposal_id, vote_power) ==
    Put(tallies, proposal_id, Get(tallies, proposal_id, 0) + vote_power)

\* Mutant: any approval percentage up to 100% is accepted.
ApprovalAtLeastHalf_Any(approval_pct) == approval_pct >= 0

\* assert approval_pct.native >= 5000
ApprovalAtLeastHalf(approval_pct) == approval_pct >= 5000

initialize_governance(quorum, approval_pct) ==
    /\ app = "GovernanceContract"
    /\ LET args == [quorum |-> quorum, approval_pct |-> approval_pct]
       IN  IF ~(approval_pct <= 10000)
           THEN Reject("initialize_governance", args, ApprovalTooHigh)
           ELSE IF ~ApprovalAtLeastHalf(approval_pct)
           THEN Reject("initialize_governance", args, ApprovalTooLow)
           ELSE /\ Len(events) < MaxGovLog
                /\ quorum_threshold' = quorum
                /\ approval_threshold' = approval_pct
                /\ Commit("initialize_governance", args, "Governance initialized",
                          <<Event("GovernanceInitialized", <<quorum, approval_pct>>)>>)
                /\ UNCHANGED <<app, now, proposals, proposal_votes, proposal_votes_against,
                               proposal_status, voter_history, fee_proposals,
                               proposal_counter, notL4>>

ProposalMetadata(proposal_type, description, target_value, sender, timestamp) ==
    "{\"type\":\"" \o proposal_type \o "\",\"description\":\"" \o description
        \o "\",\"value\":" \o ToString(target_value) \o ",\"proposer\":\"" \o sender
        \o "\",\"timestamp\":" \o ToString(timestamp) \o "}"

create_proposal(sender, proposal_type, description, target_value) ==
    /\ app = "GovernanceContract"
    /\ LET args == [sender |-> sender, proposal_type |-> proposal_type,
                    description |-> description, target_value |-> target_value]
           proposal_id == NextProposalId(proposal_counter)
       IN  /\ Len(events) < MaxGovLog
           /\ proposal_counter' = proposal_id
           /\ proposals' = Put(proposals, proposal_id,
                               ProposalMetadata(proposal_type, description, target_value,
                                                sender, now))
           /\ proposal_status' = Put(proposal_status, proposal_id, "ACTIVE")
           /\ proposal_votes' = Put(proposal_votes, proposal_id, 0)
           /\ proposal_votes_against' = Put(proposal_votes_against, proposal_id, 0)
           /\ fee_proposals' = IF proposal_type = "FEE_ADJUSTMENT"
                               THEN Put(fee_proposals, proposal_id, target_value)
                               ELSE fee_proposals
           /\ Commit("create_proposal", args, proposal_id,
                     <<Event("ProposalCreated",
                             <<proposal_id, proposal_type, sender, now>>)>>)
           /\ UNCHANGED <<app, now, voter_history, quorum_threshold, approval_threshold,
                          notL4>>

vote(sender, proposal_id, vote_yes, vote_power) ==
    /\ app = "GovernanceContract"
    /\ LET args == [sender |-> sender, proposal_id |-> proposal_id,
                    vote_yes |-> vote_yes, vote_power |-> vote_power]
           voter == sender
           history == Get(voter_history, voter, <<>>)
       IN  IF proposal_id \notin DOMAIN proposal_status
           THEN Reject("vote", args, ProposalNotFound)
           ELSE IF ~ProposalActive(proposal_status, proposal_id)
           THEN Reject("vote", args, ProposalNotActive)
           ELSE IF ~HasVotingPower(vote_power)
           THEN Reject("vote", args, NoVotingPower)
           ELSE /\ Len(events) < MaxGovLog
                /\ proposal_votes' =
                       IF vote_yes
                       THEN AddVotes(proposal_votes, proposal_id, vote_power)
                       ELSE proposal_votes
                /\ proposal_votes_against' =
                       IF vote_yes
                       THEN proposal_votes_against
                       ELSE AddVotes(proposal_votes_against, proposal_id, vote_power)
                /\ voter_history' = Put(voter_history, voter, Append(history, proposal_id))
                /\ Commit("vote", args, "Vote recorded",
                          <<Event("VoteCast",
                                  <<proposal_id, voter, vote_yes, vote_power>>)>>)
                /\ UNCHANGED <<app, now, proposals, proposal_status, fee_proposals,
                               proposal_counter, quorum_threshold, approval_threshold,
                               notL4>>

\* "Check quorum": if total_votes < self.quorum_threshold.native
QuorumNotMet(total_votes, quorum) == total_votes < quorum

\* approval_pct = (yes_votes * 10000) // total_votes, for total_votes > 0
ApprovalPct(yes_votes, total_votes) == (yes_votes * 10000) \div total_votes

\* if approval_pct >= self.approval_threshold.native
Approved(approval_pct, threshold) == approval_pct >= threshold

finalize_proposal(proposal_id) ==
    /\ app = "GovernanceContract"
    /\ LET args == [proposal_id |-> proposal_id]
           yes_votes == Get(proposal_votes, proposal_id, 0)
           no_votes == Get(proposal_votes_against, proposal_id, 0)
           total_votes == yes_votes + no_votes
           finalized(status, ret, emitted) ==
               /\ Len(events) < MaxGovLog
               /\ proposal_status' = Put(proposal_status, proposal_id, status)
               /\ Commit("finalize_proposal", args, ret, emitted)
               /\ UNCHANGED <<app, now, proposals, proposal_votes, proposal_votes_against,
                              voter_history, fee_proposals, proposal_counter,
                              quorum_threshold, approval_threshold, notL4>>
       IN  IF proposal_id \notin DOMAIN proposal_status
           THEN Reject("finalize_proposal", args, ProposalNotFound)
           ELSE IF ~ProposalActive(proposal_status, proposal_id)
           THEN Reject("finalize_proposal", args, AlreadyFinalized)
           ELSE IF QuorumNotMet(total_votes, quorum_threshold)
           THEN finalized("QUORUM_NOT_MET", "Quorum not met",
                          <<Event("ProposalFinalized",
                                  <<proposal_id, "QUORUM_NOT_MET">>)>>)
           ELSE IF total_votes = 0
           THEN Reject("finalize_proposal", args, DivisionByZero)
           ELSE LET approval_pct == ApprovalPct(yes_votes, total_votes)
                IN  IF Approved(approval_pct, approval_threshold)
                    THEN finalized("PASSED", "Proposal PASSED",
                                   <<Event("ProposalPassed",
                                           <<proposal_id, yes_votes, approval_pct>>)>>)
                    ELSE finalized("REJECTED", "Proposal REJECTED",
                                   <<Event("ProposalRejected",
                                           <<proposal_id, approval_pct>>)>>)

InitGovernance ==
    /\ app = "GovernanceContract"
    /\ InitCommon

\* The calls of a governance run all land in one block: the timestamp, which
\* only enters the proposal metadata and the ProposalCreated entry, stays put.
NextGovernance ==
    \/ \E q \in Quorums, a \in ApprovalPcts : initialize_governance(q, a)
    \/ \E s \in Proposers, t \in ProposalTypes, d \in Descriptions, v \in TargetValues :
           create_proposal(s, t, d, v)
    \/ \E p \in ProposalIds, b \in Ballots : vote(b[1], p, b[2], b[3])
    \/ \E p \in ProposalIds : finalize_proposal(p)

SpecGovernance == InitGovernance /\ [][NextGovernance]_vars

(***************************************************************************)
(* Layer 4: the oracle registry of GovernanceContract.                     *)
(***************************************************************************)
register_oracle(oracle_addr, initial_reputation) ==
    /\ app = "GovernanceContract"
    /\ LET args == [oracle_addr |-> oracle_addr,
                    initial_reputation |-> initial_reputation]
       IN  /\ Len(events) < MaxOracleLog
           /\ approved_oracles' = Put(approved_oracles, oracle_addr, TRUE)
           /\ oracle_reputation' = Put(oracle_reputation, oracle_addr, initial_reputation)
           /\ Commit("register_oracle", args, "Oracle registered",
                     <<Event("OracleRegistered", <<oracle_addr, initial_reputation>>)>>)
           /\ UNCHANGED <<app, now, notL4o>>

\* new_rep = 0 if current_rep < slash_amount else current_rep - slash_amount
SlashedReputation(current_rep, slash_amount) ==
    IF current_rep < slash_amount THEN 0 ELSE current_rep - slash_amount

\* Mutant: an oracle standing exactly at the floor is removed too.
BelowFloor_Inclusive(new_rep) == new_rep <= 100

\* "Remove oracle if reputation too low": if new_rep < 100
BelowFloor(new_rep) == new_rep < 100

slash_oracle(oracle_addr, slash_amount, reason) ==
    /\ app = "GovernanceContract"
    /\ LET args == [oracle_addr |-> oracle_addr, slash_amount |-> slash_amount,
                    reason |-> reason]
           current_rep == Get(oracle_reputation, oracle_addr, 0)
           new_rep == SlashedReputation(current_rep, slash_amount)
           emitted ==
               (IF BelowFloor(new_rep)
                THEN <<Event("OracleRemoved", <<oracle_addr, reason>>)>>
                ELSE <<>>)
               \o <<Event("OracleSlashed", <<oracle_addr, new_rep, reason>>)>>
       IN  /\ Len(events) + Len(emitted) <= MaxOracleLog
           /\ oracle_reputation' = Put(oracle_reputation, oracle_addr, new_rep)
           /\ approved_oracles' = IF BelowFloor(new_rep)
                                  THEN Put(approved_oracles, oracle_addr, FALSE)
                                  ELSE approved_oracles
           /\ Commit("slash_oracle", args,
                     "Oracle slashed: new reputation " \o ToString(new_rep), emitted)
           /\ UNCHANGED <<app, now, notL4o>>

InitOracles ==
    /\ app = "GovernanceContract"
    /\ InitCommon

NextOracles ==
    \/ \E o \in Oracles, r \in InitialReputations : register_oracle(o, r)
    \/ \E o \in Oracles, a \in SlashAmounts, r \in SlashReasons : slash_oracle(o, a, r)

SpecOracles == InitOracles /\ [][NextOracles]_vars

(***************************************************************************)
(* Reading the log.                                                        *)
(***************************************************************************)
CountEvents(log, name) == Cardinality({i \in 1..Len(log) : log[i].name = name})

RECURSIVE SumRebateCalculated(_, _)
\* Sum of the amounts of the RebateCalculated entries of `log` naming m.
SumRebateCalculated(log, m) ==
    IF log = <<>> THEN 0
    ELSE (IF log[1].name = "RebateCalculated" /\ log[1].fields[2] = m
          THEN log[1].fields[5] ELSE 0)
         + SumRebateCalculated(Tail(log), m)

RECURSIVE SumOfValues(_)
SumOfValues(f) ==
    IF DOMAIN f = {} THEN 0
    ELSE LET k == CHOOSE x \in DOMAIN f : TRUE
         IN  f[k] + SumOfValues([x \in (DOMAIN f) \ {k} |-> f[x]])

RECURSIVE SumAssetAmounts(_)
SumAssetAmounts(transfers) ==
    IF transfers = <<>> THEN 0
    ELSE transfers[1].asset_amount + SumAssetAmounts(Tail(transfers))

IsPrefix(a, b) == Len(a) <= Len(b) /\ SubSeq(b, 1, Len(a)) = a

\* floor(amount * bps / 10000), for an amount that is a multiple of 10000 or
\* small enough for the product to be formed directly.
FloorBps(amount, bps) ==
    IF amount % 10000 = 0 THEN (amount \div 10000) * bps ELSE (amount * bps) \div 10000

(***************************************************************************)
(* Layer 5: CrossBorderSettlementContract.                                 *)
(***************************************************************************)
MaxComplianceLog == 4       \* log entries a compliance run may commit
MaxFeeCapLog == 4           \* log entries a fee-cap run may commit
MaxConversionLog == 5       \* log entries a conversion run may commit
MaxAmlLog == 6              \* log entries an AML run may commit
\* <<pharmacy_addr, jurisdiction, fee_bps, kyc_verified>>
KycRegistrations ==
    {<<"P1", "US", 300, TRUE>>, <<"P1", "US", 301, TRUE>>, <<"P1", "US", 300, FALSE>>}
FeeRegistrations ==
    {<<"P1", "US", 300, TRUE>>, <<"P1", "US", 301, TRUE>>, <<"P1", "EU", 250, TRUE>>,
     <<"P1", "EU", 251, TRUE>>, <<"P1", "CA", 200, TRUE>>, <<"P1", "CA", 201, TRUE>>,
     <<"P1", "MX", 300, TRUE>>, <<"P1", "MX", 301, TRUE>>}
\* <<from_currency, to_currency, rate>>
RateUpdates ==
    {<<"USD", "EUR", 920000>>, <<"EUR", "USD", 1080000>>, <<"USD", "GBP", 790000>>}
RateRevisions == {<<"USD", "EUR", 920000>>, <<"USD", "EUR", 930000>>}
\* <<currency_code, asset_id>>
CurrencyRegistrations == {<<"EUR", 31>>}
SettledPharmacies == {"P1", "P2"}
TargetCurrencies == {"EUR", "GBP"}
CrossBorderKeys == {<<1>>, <<2>>}
\* 100 USD, a third of a cent, and 21 million USD, whose product with a rate
\* near 1 passes 2^64
UsdAmounts == {Wide(100000000), Wide(3333), <<0, 0, 0, 0, 21>>}
CrossBorderTxnIndexes == {0}
RiskLevels == {"HIGH"}
FlagReasons == {"r"}

PharmacyNotRegistered == "Pharmacy not registered"
KYCNotVerified == "KYC not verified"
JurisdictionUnknown == "Jurisdiction unknown"
RateUnavailable == "Exchange rate not available"
FeeExceedsJurisdictionCap == "Fee exceeds jurisdiction cap"
CurrencyNotSupported == "Currency not supported"
\* The AVM's error for a uint64 product that does not fit.
ArithmeticOverflow == "* overflowed"

\* n / 1000000 inside an f-string: the quotient the text spells, kept exact.
Millionths(n) == [millionths |-> n]

register_currency(currency_code, asset_id) ==
    /\ app = "CrossBorderSettlementContract"
    /\ supported_currencies' = Put(supported_currencies, currency_code, asset_id)
    /\ Commit("register_currency",
              [currency_code |-> currency_code, asset_id |-> asset_id],
              currency_code \o " registered",
              <<Event("CurrencyRegistered", <<currency_code, asset_id>>)>>)
    /\ UNCHANGED <<app, now, exchange_rates, pharmacy_jurisdictions, jurisdiction_fees,
                   cross_border_settlements, conversion_history, kyc_verified,
                   aml_flags, jurisdiction_fee_caps, notL5>>

\* rate_key = f"{from_currency}_{to_currency}"
RateKey(from_currency, to_currency) == from_currency \o "_" \o to_currency

update_exchange_rate(from_currency, to_currency, rate) ==
    /\ app = "CrossBorderSettlementContract"
    /\ exchange_rates' = Put(exchange_rates, RateKey(from_currency, to_currency), rate)
    /\ Commit("update_exchange_rate",
              [from_currency |-> from_currency, to_currency |-> to_currency,
               rate |-> rate],
              <<"Rate updated: 1 ", from_currency, " = ", Millionths(rate), " ",
                to_currency>>,
              <<Event("ExchangeRateUpdated",
                      <<from_currency, to_currency, rate, now>>)>>)
    /\ UNCHANGED <<app, now, supported_currencies, pharmacy_jurisdictions,
                   jurisdiction_fees, cross_border_settlements, conversion_history,
                   kyc_verified, aml_flags, jurisdiction_fee_caps, notL5>>

\* Mutant: the EU cap is the default one.
JurisdictionCap_Default(jurisdiction) ==
    IF jurisdiction = "CA" THEN 200 ELSE 300

\* The cap set_jurisdiction stores for a jurisdiction.
JurisdictionCap(jurisdiction) ==
    IF jurisdiction = "US" THEN 300
    ELSE IF jurisdiction = "EU" THEN 250
    ELSE IF jurisdiction = "CA" THEN 200
    ELSE 300

set_jurisdiction(pharmacy_addr, jurisdiction, fee_bps, kyc) ==
    /\ app = "CrossBorderSettlementContract"
    /\ pharmacy_jurisdictions' = Put(pharmacy_jurisdictions, pharmacy_addr, jurisdiction)
    /\ jurisdiction_fees' = Put(jurisdiction_fees, jurisdiction, fee_bps)
    /\ kyc_verified' = Put(kyc_verified, pharmacy_addr, kyc)
    /\ jurisdiction_fee_caps' =
           Put(jurisdiction_fee_caps, jurisdiction, JurisdictionCap(jurisdiction))
    /\ Commit("set_jurisdiction",
              [pharmacy_addr |-> pharmacy_addr, jurisdiction |-> jurisdiction,
               fee_bps |-> fee_bps, kyc_verified |-> kyc],
              "Pharmacy registered in " \o jurisdiction,
              <<Event("JurisdictionRegistered",
                      <<pharmacy_addr, jurisdiction, fee_bps, kyc>>)>>)
    /\ UNCHANGED <<app, now, supported_currencies, exchange_rates,
                   cross_border_settlements, conversion_history, aml_flags, notL5>>

\* Mutant: a registered pharmacy passes whatever its KYC status.
KycPassed_Registered(kyc, pharmacy_addr) == TRUE

\* self.kyc_verified[pharmacy_addr].native
KycPassed(kyc, pharmacy_addr) == kyc[pharmacy_addr]

\* Mutant: a flagged pharmacy is settled without a review event.
AmlReview_Silent(flags, pharmacy_addr, claim_key) == <<>>

\* The review event of a flagged pharmacy.
AmlReview(flags, pharmacy_addr, claim_key) ==
    IF pharmacy_addr \in DOMAIN flags
    THEN <<Event("AML_REVIEW_REQUIRED",
                 <<pharmacy_addr, claim_key, flags[pharmacy_addr]>>)>>
    ELSE <<>>

\* Mutant: a missing rate is derived from the reverse pair's entry.
LookupRate_Reverse(rates, target_currency) ==
    IF RateKey("USD", target_currency) \in DOMAIN rates
    THEN [found |-> TRUE, rate |-> rates[RateKey("USD", target_currency)]]
    ELSE IF RateKey(target_currency, "USD") \in DOMAIN rates
    THEN [found |-> TRUE, rate |-> rates[RateKey(target_currency, "USD")]]
    ELSE [found |-> FALSE, rate |-> 0]

\* rate_key = f"USD_{target_currency}", its presence and its entry.
LookupRate(rates, target_currency) ==
    IF RateKey("USD", target_currency) \in DOMAIN rates
    THEN [found |-> TRUE, rate |-> rates[RateKey("USD", target_currency)]]
    ELSE [found |-> FALSE, rate |-> 0]

\* Mutant: the quotient is rounded up.
Converted_Ceil(amount_usd, exchange_rate) ==
    WideDiv(Carry(WideMul(amount_usd, Wide(exchange_rate)), 999999), 1000000)

\* (amount_usd * exchange_rate) // 1_000_000
Converted(amount_usd, exchange_rate) ==
    WideDiv(WideMul(amount_usd, Wide(exchange_rate)), 1000000)

\* Mutant: a fee at the cap is refused.
WithinCap_Strict(jurisdiction_fee_bps, fee_cap) == jurisdiction_fee_bps < fee_cap

\* jurisdiction_fee_bps <= fee_cap
WithinCap(jurisdiction_fee_bps, fee_cap) == jurisdiction_fee_bps <= fee_cap

\* (rebate_amount_target * jurisdiction_fee_bps) // 10000
JurisdictionFee(rebate_amount_target, jurisdiction_fee_bps) ==
    WideDiv(WideMul(rebate_amount_target, Wide(jurisdiction_fee_bps)), 10000)

SettlementMetadata(claim_key, rebate_amount_usd, target_currency, rebate_amount_target, exchange_rate, jurisdiction, admin_fee, timestamp) ==
    "{\"claim\":\"" \o Hex(DynamicBytesEncoding(claim_key))
        \o "\",\"usd_amount\":" \o WideToString(rebate_amount_usd)
        \o ",\"target_currency\":\"" \o target_currency
        \o "\",\"converted_amount\":" \o WideToString(rebate_amount_target)
        \o ",\"exchange_rate\":" \o ToString(exchange_rate)
        \o ",\"jurisdiction\":\"" \o jurisdiction
        \o "\",\"fee\":" \o WideToString(admin_fee)
        \o ",\"timestamp\":" \o ToString(timestamp) \o "}"

\* The parts of the conversion_data f-string.
ConversionData(rebate_amount_usd, target_currency, rebate_amount_target, exchange_rate) ==
    <<"USD:", WideToString(rebate_amount_usd), "->", target_currency, ":",
      WideToString(rebate_amount_target), " @", Millionths(exchange_rate)>>

\* Mutant: a settlement on record is kept when the claim is settled again.
RecordSettlement_KeepFirst(settlements, claim_key, settlement_metadata) ==
    IF claim_key \in DOMAIN settlements THEN settlements
    ELSE Put(settlements, claim_key, settlement_metadata)

\* self.cross_border_settlements[claim_key] = settlement_metadata
RecordSettlement(settlements, claim_key, settlement_metadata) ==
    Put(settlements, claim_key, settlement_metadata)

\* settle_cross_border called in the transaction group `group` (the method
\* reads neither the group nor oracle_txn_index).
settle_cross_border_grouped(group, claim_key, rebate_amount_usd, pharmacy_addr, target_currency, oracle_txn_index) ==
    /\ app = "CrossBorderSettlementContract"
    /\ LET args == [claim_key |-> claim_key, rebate_amount_usd |-> rebate_amount_usd,
                    pharmacy_addr |-> pharmacy_addr,
                    target_currency |-> target_currency,
                    oracle_txn_index |-> oracle_txn_index, group |-> group]
           jurisdiction == pharmacy_jurisdictions[pharmacy_addr]
           review == AmlReview(aml_flags, pharmacy_addr, claim_key)
           looked == LookupRate(exchange_rates, target_currency)
           exchange_rate == looked.rate
           rebate_amount_target == Converted(rebate_amount_usd, exchange_rate)
           jurisdiction_fee_bps == Get(jurisdiction_fees, jurisdiction, 300)
           fee_cap == Get(jurisdiction_fee_caps, jurisdiction, 300)
           admin_fee == JurisdictionFee(rebate_amount_target, jurisdiction_fee_bps)
           pharmacy_payout == WideSub(rebate_amount_target, admin_fee)
           settlement_metadata ==
               SettlementMetadata(claim_key, rebate_amount_usd, target_currency,
                                  rebate_amount_target, exchange_rate, jurisdiction,
                                  admin_fee, now)
           locals == [rebate_amount_target |-> rebate_amount_target,
                      jurisdiction_fee_bps |-> jurisdiction_fee_bps,
                      fee_cap |-> fee_cap, admin_fee |-> admin_fee,
                      pharmacy_payout |-> pharmacy_payout]
           \* an assert failing after the AML review was emitted
           RejectReviewed(msg) ==
               /\ last' = [op |-> "settle_cross_border", args |-> args, err |-> msg,
                           ret |-> NoRet, emitted |-> Aborted(<<>>, review),
                           locals |-> NoLocals]
               /\ events' = Aborted(events, events \o review)
               /\ UNCHANGED <<app, now, storage>>
       IN  IF ~(pharmacy_addr \in DOMAIN kyc_verified)
           THEN Reject("settle_cross_border", args, PharmacyNotRegistered)
           ELSE IF ~KycPassed(kyc_verified, pharmacy_addr)
           THEN Reject("settle_cross_border", args, KYCNotVerified)
           ELSE IF ~(pharmacy_addr \in DOMAIN pharmacy_jurisdictions)
           THEN Reject("settle_cross_border", args, JurisdictionUnknown)
           ELSE IF ~looked.found
           THEN RejectReviewed(RateUnavailable)
           ELSE IF MulOverflows(rebate_amount_usd, Wide(exchange_rate))
           THEN RejectReviewed(ArithmeticOverflow)
           ELSE IF ~WithinCap(jurisdiction_fee_bps, fee_cap)
           THEN RejectReviewed(FeeExceedsJurisdictionCap)
           ELSE IF MulOverflows(rebate_amount_target, Wide(jurisdiction_fee_bps))
           THEN RejectReviewed(ArithmeticOverflow)
           ELSE IF ~(target_currency \in DOMAIN supported_currencies)
           THEN RejectReviewed(CurrencyNotSupported)
           ELSE /\ cross_border_settlements' =
                       RecordSettlement(cross_border_settlements, claim_key,
                                        settlement_metadata)
                /\ conversion_history' =
                       Put(conversion_history, claim_key,
                           ConversionData(rebate_amount_usd, target_currency,
                                          rebate_amount_target, exchange_rate))
                /\ CommitWith("settle_cross_border", args,
                              <<"Settled: ", Millionths(pharmacy_payout), " ",
                                target_currency, " to pharmacy">>,
                              review \o
                              <<Event("CrossBorderSettlement",
                                      <<claim_key, pharmacy_addr, target_currency,
                                        rebate_amount_target, admin_fee,
                                        jurisdiction>>)>>,
                              locals)
                /\ UNCHANGED <<app, now, supported_currencies, exchange_rates,
                               pharmacy_jurisdictions, jurisdiction_fees, kyc_verified,
                               aml_flags, jurisdiction_fee_caps, notL5>>

\* The call sent on its own.
settle_cross_border(claim_key, rebate_amount_usd, pharmacy_addr, target_currency, oracle_txn_index) ==
    settle_cross_border_grouped(<<ApplCall>>, claim_key, rebate_amount_usd,
                                pharmacy_addr, target_currency, oracle_txn_index)

flag_aml_risk(pharmacy_addr, risk_level, reason) ==
    /\ app = "CrossBorderSettlementContract"
    /\ aml_flags' = Put(aml_flags, pharmacy_addr, risk_level)
    /\ Commit("flag_aml_risk",
              [pharmacy_addr |-> pharmacy_addr, risk_level |-> risk_level,
               reason |-> reason],
              "Pharmacy flagged: " \o risk_level \o " risk",
              <<Event("AML_FLAG_RAISED", <<pharmacy_addr, risk_level, reason, now>>)>>)
    /\ UNCHANGED <<app, now, supported_currencies, exchange_rates,
                   pharmacy_jurisdictions, jurisdiction_fees, cross_border_settlements,
                   conversion_history, kyc_verified, jurisdiction_fee_caps, notL5>>

SettlementNotFound == "{\"status\":\"not_found\"}"

get_settlement_details(claim_key) ==
    /\ app = "CrossBorderSettlementContract"
    /\ Return("get_settlement_details", [claim_key |-> claim_key],
              IF ~(claim_key \in DOMAIN cross_border_settlements)
              THEN SettlementNotFound
              ELSE cross_border_settlements[claim_key])

estimate_conversion(amount_usd, target_currency) ==
    /\ app = "CrossBorderSettlementContract"
    /\ LET args == [amount_usd |-> amount_usd, target_currency |-> target_currency]
           looked == LookupRate(exchange_rates, target_currency)
       IN  IF ~looked.found
           THEN Return("estimate_conversion", args, Wide(0))
           ELSE IF MulOverflows(amount_usd, Wide(looked.rate))
           THEN Reject("estimate_conversion", args, ArithmeticOverflow)
           ELSE Return("estimate_conversion", args, Converted(amount_usd, looked.rate))

InitCrossBorder ==
    /\ app = "CrossBorderSettlementContract"
    /\ InitCommon

\* Registration, rates, flags and the checks of a settlement.
NextCompliance ==
    \/ \E r \in KycRegistrations :
           set_jurisdiction(r[1], r[2], r[3], r[4]) /\ Len(events') <= MaxComplianceLog
    \/ \E u \in RateUpdates :
           update_exchange_rate(u[1], u[2], u[3]) /\ Len(events') <= MaxComplianceLog
    \/ \E c \in CurrencyRegistrations :
           register_currency(c[1], c[2]) /\ Len(events') <= MaxComplianceLog
    \/ \E l \in RiskLevels, w \in FlagReasons :
           flag_aml_risk("P1", l, w) /\ Len(events') <= MaxComplianceLog
    \/ \E p \in SettledPharmacies, t \in TargetCurrencies, i \in CrossBorderTxnIndexes :
           settle_cross_border(<<1>>, Wide(100000000), p, t, i)
               /\ Len(events') <= MaxComplianceLog
    \/ \E k \in CrossBorderKeys : get_settlement_details(k)
    \/ \E t \in TargetCurrencies : estimate_conversion(Wide(100000000), t)

SpecCompliance == InitCrossBorder /\ [][NextCompliance]_vars

\* The fee of each jurisdiction on either side of its cap.
\* A settled amount whose fee is exact and one whose fee is rounded down.
FeeCapAmounts == {Wide(100000000), Wide(3333)}

NextFeeCaps ==
    \/ \E r \in FeeRegistrations :
           set_jurisdiction(r[1], r[2], r[3], r[4]) /\ Len(events') <= MaxFeeCapLog
    \/ update_exchange_rate("USD", "EUR", 920000) /\ Len(events') <= MaxFeeCapLog
    \/ \E c \in CurrencyRegistrations :
           register_currency(c[1], c[2]) /\ Len(events') <= MaxFeeCapLog
    \/ \E a \in FeeCapAmounts, i \in CrossBorderTxnIndexes :
           settle_cross_border(<<1>>, a, "P1", "EUR", i) /\ Len(events') <= MaxFeeCapLog

SpecFeeCaps == InitCrossBorder /\ [][NextFeeCaps]_vars

\* Rates revised, amounts converted, settlements recorded and read back.
NextConversion ==
    \/ set_jurisdiction("P1", "US", 300, TRUE) /\ Len(events') <= MaxConversionLog
    \/ \E u \in RateRevisions :
           update_exchange_rate(u[1], u[2], u[3]) /\ Len(events') <= MaxConversionLog
    \/ \E c \in CurrencyRegistrations :
           register_currency(c[1], c[2]) /\ Len(events') <= MaxConversionLog
    \/ \E k \in CrossBorderKeys, a \in UsdAmounts, i \in CrossBorderTxnIndexes :
           settle_cross_border(k, a, "P1", "EUR", i) /\ Len(events') <= MaxConversionLog
    \/ \E k \in CrossBorderKeys : get_settlement_details(k)
    \/ \E a \in UsdAmounts : estimate_conversion(a, "EUR")

SpecConversion == InitCrossBorder /\ [][NextConversion]_vars

\* Settlements of a pharmacy before and after it is flagged.
\* The fee rate of the registrations: the US cap.
AmlFeeRates == {300}

NextAml ==
    \/ \E f \in AmlFeeRates :
           set_jurisdiction("P1", "US", f, TRUE) /\ Len(events') <= MaxAmlLog
    \/ update_exchange_rate("USD", "EUR", 920000) /\ Len(events') <= MaxAmlLog
    \/ \E c \in CurrencyRegistrations :
           register_currency(c[1], c[2]) /\ Len(events') <= MaxAmlLog
    \/ \E l \in RiskLevels, w \in FlagReasons :
           flag_aml_risk("P1", l, w) /\ Len(events') <= MaxAmlLog
    \/ \E i \in CrossBorderTxnIndexes :
           settle_cross_border(<<1>>, Wide(100000000), "P1", "EUR", i)
               /\ Len(events') <= MaxAmlLog

SpecAml == InitCrossBorder /\ [][NextAml]_vars

(***************************************************************************)
(* C1.  Dedup: for any identity tuple T submitted with a non-empty auth    *)
(* proof, the first submit_claim(T) succeeds and returns fingerprint F,    *)
(* and a second submit_claim(T) fails with DuplicateClaim, computes the    *)
(* same F and leaves claim_hashes and claim_records as they were; the same *)
(* for submit_claim_enhanced.  A step is a submission of T = last'.args;   *)
(* it is the first one of T iff no submission with T's fingerprinted       *)
(* arguments was accepted before the step.                                 *)
(***************************************************************************)
SubmitOps == {"submit_claim", "submit_claim_enhanced"}

\* The arguments that enter the fingerprint: the base ledger hashes the four
\* identity fields and the proof, the enhanced ledger the four identity fields
\* and the batch and lot numbers.
HashedFields(op) ==
    IF op = "submit_claim"
    THEN {"claim_id", "ndc_code", "pharmacy_npi", "dispense_date", "oracle_sig"}
    ELSE {"claim_id", "ndc_code", "pharmacy_npi", "dispense_date", "batch_number", "lot_number"}

\* The accepted submissions that agree with args on every fingerprinted field.
AcceptedAs(args) ==
    {a \in DOMAIN accepted :
        /\ DOMAIN a = DOMAIN args
        /\ \A f \in HashedFields(last'.op) \cap DOMAIN args : a[f] = args[f]}

C1_FirstSucceeds ==
    (last'.op \in SubmitOps /\ Len(last'.args.oracle_sig) > 0
        /\ AcceptedAs(last'.args) = {})
    => /\ last'.err = ""
       /\ last'.ret \in DOMAIN claim_hashes'

C1_SecondRejected ==
    (last'.op \in SubmitOps /\ Len(last'.args.oracle_sig) > 0
        /\ AcceptedAs(last'.args) # {})
    => /\ last'.err \in {DuplicateClaim, DuplicateClaimEnhanced}
       /\ \A a \in AcceptedAs(last'.args) : last'.locals.claim_key = accepted[a]
       /\ claim_hashes' = claim_hashes
       /\ claim_records' = claim_records

C1_Dedup == [][C1_FirstSucceeds /\ C1_SecondRejected]_vars

\* The half of C1 that does hold: a repeated submission is always rejected.
C1_RepeatRejected == [][C1_SecondRejected]_vars

(***************************************************************************)
(* C7.  Tier boundary: for a registered schedule (base, threshold, bonus), *)
(* calculate_accrual returns floor(wac_price * base / 10000) whenever      *)
(* current_volume <= threshold and floor(wac_price * (base + bonus) /      *)
(* 10000) whenever current_volume > threshold, and BonusTierActivated is   *)
(* emitted exactly in the second case; base=1500, threshold=1000,          *)
(* bonus=500, wac=100_000_000 gives 15_000_000 at volume 1000 and          *)
(* 20_000_000 at volume 1001.                                              *)
(***************************************************************************)
C7_TierBoundary ==
    (last.op = "calculate_accrual" /\ last.err = "") =>
        LET a == last.args
            schedule == tier_schedules[a.manufacturer]
        IN  /\ a.current_volume <= schedule[2] =>
                   /\ last.ret = FloorBps(a.wac_price, schedule[1])
                   /\ CountEvents(last.emitted, "BonusTierActivated") = 0
            /\ a.current_volume > schedule[2] =>
                   /\ last.ret = FloorBps(a.wac_price, schedule[1] + schedule[3])
                   /\ CountEvents(last.emitted, "BonusTierActivated") = 1
            /\ (schedule = <<1500, 1000, 500>> /\ a.wac_price = 100000000) =>
                   /\ a.current_volume = 1000 => last.ret = 15000000
                   /\ a.current_volume = 1001 => last.ret = 20000000

C7_Witness ==
    /\ last.op = "calculate_accrual" /\ last.err = ""
    /\ tier_schedules[last.args.manufacturer] = <<1500, 1000, 500>>
    /\ last.args.wac_price = 100000000
    /\ last.args.current_volume = 1000
    /\ last.ret = 15000000

(***************************************************************************)
(* C8.  ManufacturerTotal is monotonically non-decreasing: over any        *)
(* sequence of register_schedule and calculate_accrual calls the total of  *)
(* a manufacturer never decreases (re-registering does not reset it), and  *)
(* it changes only in the step that writes an AccrualRecord.               *)
(***************************************************************************)
C8_Step ==
    \A m \in Manufacturers :
        LET before == ManufacturerTotal(total_accrued, m)
            after == ManufacturerTotal(total_accrued', m)
        IN  /\ after >= before
            /\ after # before =>
                   /\ last'.op = "calculate_accrual" /\ last'.err = ""
                   /\ last'.args.manufacturer = m
                   /\ last'.args.claim_key \in DOMAIN accrued_liabilities'
                   /\ accrued_liabilities'[last'.args.claim_key] = last'.ret
                   /\ after = before + last'.ret

C8_TotalMonotonic == [][C8_Step]_vars

\* A manufacturer re-registers after accruals were computed for it.
C8_Witness ==
    /\ last.op = "register_schedule"
    /\ ManufacturerTotal(total_accrued, last.args.sender) > 0

(***************************************************************************)
(* C9.  Accrual recomputation: calculate_accrual for a fingerprint that    *)
(* already has an AccrualRecord overwrites the record with the new amount  *)
(* and adds that amount to ManufacturerTotal again, so total_accrued[m]    *)
(* always equals the sum of the amounts returned by all successful         *)
(* calculate_accrual calls naming m (the RebateCalculated entries of the   *)
(* log), which can exceed the sum of the stored AccrualRecords.            *)
(***************************************************************************)
C9_TotalIsSumOfReturned ==
    /\ \A m \in Manufacturers :
           ManufacturerTotal(total_accrued, m) = SumRebateCalculated(events, m)
    /\ (last.op = "calculate_accrual" /\ last.err = "") =>
           accrued_liabilities[last.args.claim_key] = last.ret

\* A recomputation: the total exceeds what the stored records add up to.
C9_Witness ==
    /\ app = "RebateEngineContract"
    /\ last.op = "calculate_accrual" /\ last.err = ""
    /\ \E i \in 1..Len(events) :
           /\ events[i].name = "RebateCalculated"
           /\ events[i].fields[1] = last.args.claim_key
           /\ i < Len(events)
    /\ \E m \in Manufacturers :
           ManufacturerTotal(total_accrued, m) > SumOfValues(accrued_liabilities)

(***************************************************************************)
(* C2.  Fee cap invariant: initialize fails for every admin_fee_cap_bps    *)
(* > 300, so the configured cap is <= 300 in every reachable state, and    *)
(* every successful claim_rebate charges admin_fee = floor(rebate_amount   *)
(* * cap / 10000) <= floor(rebate_amount * 300 / 10000).                   *)
(***************************************************************************)
\* The inner transfers the last call submitted, in order.
TransfersOfLast == EffectsOf(last.locals.steps, "itxn")

RECURSIVE SumTransfersTo(_, _)
SumTransfersTo(transfers, receiver) ==
    IF transfers = <<>> THEN 0
    ELSE (IF transfers[1].asset_receiver = receiver THEN transfers[1].asset_amount ELSE 0)
         + SumTransfersTo(Tail(transfers), receiver)

C2_FeeCap ==
    /\ IsSet(admin_fee_cap) => ValueOf(admin_fee_cap) <= 300
    /\ (last.op = "initialize" /\ last.args.admin_fee_cap_bps > 300) =>
           last.err = FeeCapTooHigh
    /\ (last.op = "claim_rebate" /\ last.err = "") =>
           LET amount == last.args.rebate_amount
               charged == SumTransfersTo(TransfersOfLast, last.args.pbm_addr)
           IN  /\ charged = FloorBps(amount, ValueOf(admin_fee_cap))
               /\ charged <= FloorBps(amount, 300)

C2_Witness ==
    /\ last.op = "claim_rebate" /\ last.err = ""
    /\ ValueOf(admin_fee_cap) = 300
    /\ last.args.rebate_amount = 10000
    /\ SumTransfersTo(TransfersOfLast, last.args.pbm_addr) = 300

(***************************************************************************)
(* C3.  Settlement authentication gate: claim_rebate issues no value       *)
(* transfer and emits no RebateSettled unless the call is in a group of    *)
(* size > 1 (otherwise NotInAtomicGroup) and the transaction at            *)
(* oracle_txn_index is a payment with amount >= 1000 (otherwise            *)
(* InvalidOracleTransaction); a stake of 999 or less always fails with no  *)
(* transfer, and a stake of exactly 1000 passes the gate.                  *)
(***************************************************************************)
\* The failures of the oracle-transaction check (no transaction at the index,
\* not a payment, a stake below the minimum).
InvalidOracleTransaction == {GroupIndexError, InvalidOracleType, InvalidOracleStake}

C3_AuthGate ==
    (last.op = "claim_rebate") =>
        LET g == last.args.group
            i == last.args.oracle_txn_index
            grouped == Len(g) > 1
            payment == i < Len(g) /\ g[i + 1].type = "pay"
            staked == payment /\ g[i + 1].amount >= 1000
            nothingIssued ==
                /\ last.err # ""
                /\ TransfersOfLast = <<>>
                /\ last.emitted = <<>>
        IN  /\ ~grouped => last.err = NotInAtomicGroup /\ nothingIssued
            /\ (grouped /\ ~staked) =>
                   last.err \in InvalidOracleTransaction /\ nothingIssued
            /\ (grouped /\ payment /\ g[i + 1].amount <= 999) =>
                   last.err = InvalidOracleStake /\ nothingIssued
            /\ (grouped /\ staked) =>
                   last.err \notin {NotInAtomicGroup} \cup InvalidOracleTransaction

\* A settlement authenticated by a stake of exactly 1000.
C3_Witness ==
    /\ last.op = "claim_rebate" /\ last.err = ""
    /\ last.args.group[last.args.oracle_txn_index + 1].amount = 1000
    /\ TransfersOfLast # <<>>

(***************************************************************************)
(* C4.  Settlement split conserves value: every successful claim_rebate    *)
(* transfers payout = rebate_amount - admin_fee to the pharmacy and        *)
(* admin_fee to the fee-collector, the transfers add up to rebate_amount,  *)
(* the fee transfer is issued iff admin_fee > 0 and the payout transfer    *)
(* always.                                                                 *)
(***************************************************************************)
C4_SplitConserves ==
    (last.op = "claim_rebate" /\ last.err = "") =>
        LET a == last.args
            fee == FloorBps(a.rebate_amount, ValueOf(admin_fee_cap))
            asset == ValueOf(usdc_asset_id)
            payoutTransfer == AssetTransfer(asset, a.rebate_amount - fee, a.pharmacy_addr)
            feeTransfer == AssetTransfer(asset, fee, a.pbm_addr)
            n == Len(TransfersOfLast)
        IN  /\ TransfersOfLast = IF fee > 0 THEN <<payoutTransfer, feeTransfer>>
                                 ELSE <<payoutTransfer>>
            /\ SumAssetAmounts(TransfersOfLast) = a.rebate_amount
            /\ Len(itxns) >= n
            /\ SubSeq(itxns, Len(itxns) - n + 1, Len(itxns)) = TransfersOfLast

\* A settlement with a non-zero fee: two transfers.
C4_Witness ==
    /\ last.op = "claim_rebate" /\ last.err = ""
    /\ Len(TransfersOfLast) = 2
    /\ TransfersOfLast[2].asset_amount > 0

(***************************************************************************)
(* C5.  Intra-call ordering of claim_rebate: every precondition check      *)
(* (group membership, oracle type and stake, fee cap) is evaluated before  *)
(* the first transfer is issued, the fee transfer is submitted only after  *)
(* the payout transfer was accepted, and if the payout transfer is         *)
(* rejected the fee transfer is never submitted and RebateSettled is not   *)
(* emitted.                                                                *)
(***************************************************************************)
PreconditionChecks ==
    {"group_size > 1", "oracle_txn.type == Payment", "oracle_txn.amount >= 1000",
     "admin_fee <= max_allowed_fee"}

C5_Ordering ==
    (last.op = "claim_rebate") =>
        LET steps == last.locals.steps
            at(name) == {i \in 1..Len(steps) : steps[i].step = name}
            transfers == {i \in 1..Len(steps) : steps[i].kind = "itxn"}
        IN  /\ \A j \in transfers :
                   \A c \in PreconditionChecks :
                       \E i \in at(c) : i < j /\ steps[i].ok
            /\ \A j \in at("fee") : \E i \in at("payout") : i < j /\ steps[i].ok
            /\ (\E i \in at("payout") : ~steps[i].ok) =>
                   /\ at("fee") = {}
                   /\ at("RebateSettled") = {}
                   /\ last.emitted = <<>>
                   /\ last.err = InnerTxnRejected

\* The ledger rejected the payout of a settlement that owed a fee.
C5_Witness ==
    /\ last.op = "claim_rebate"
    /\ \E i \in 1..Len(last.locals.steps) :
           last.locals.steps[i].step = "payout" /\ ~last.locals.steps[i].ok
    /\ AdminFee(last.args.rebate_amount, ValueOf(admin_fee_cap)) > 0

(***************************************************************************)
(* C6.  Audit trail of settlements: every successful claim_rebate emits    *)
(* exactly one RebateSettled event carrying the fingerprint, pharmacy,     *)
(* fee-collector and the payout and fee amounts that were transferred, a   *)
(* failed claim_rebate emits none, and the event log only grows; the       *)
(* audit rail's log_settlement likewise only appends the entry it is given.*)
(***************************************************************************)
C6_Step ==
    /\ IsPrefix(events, events')
    /\ (last'.op = "claim_rebate" /\ last'.err = "") =>
           LET a == last'.args
               transfers == EffectsOf(last'.locals.steps, "itxn")
               e == events'[Len(events')]
           IN  /\ Len(events') = Len(events) + 1
               /\ last'.emitted = <<e>>
               /\ e.name = "RebateSettled"
               /\ e.fields[1] = a.claim_key
               /\ e.fields[2] = a.pharmacy_addr
               /\ e.fields[3] = a.pbm_addr
               /\ e.fields[4] = SumTransfersTo(transfers, a.pharmacy_addr)
               /\ e.fields[5] = SumTransfersTo(transfers, a.pbm_addr)
               /\ e.fields[6] = now'
               /\ itxns' = itxns \o transfers
    /\ (last'.op = "claim_rebate" /\ last'.err # "") =>
           /\ events' = events
           /\ itxns' = itxns
           /\ last'.emitted = <<>>
    /\ (last'.op = "log_settlement") =>
           LET a == last'.args
           IN  events' = Append(events,
                                Event("SettlementAudit",
                                      <<a.claim_key, a.pharmacy_addr, a.pharmacy_payout,
                                        a.pbm_fee, a.pharmacy_payout + a.pbm_fee, now'>>))

C6_AuditTrail == [][C6_Step]_vars

\* A settlement logged after an earlier entry.
C6_Witness ==
    /\ last.op = "claim_rebate" /\ last.err = ""
    /\ Len(events) >= 2
    /\ events[Len(events)].name = "RebateSettled"
    /\ events[Len(events)].fields[5] > 0

(***************************************************************************)
(* C10.  Governance finalize rule: finalize_proposal on an ACTIVE proposal *)
(* with tallies yes, no sets its status to QUORUM_NOT_MET if yes + no <    *)
(* quorum_threshold, otherwise to PASSED iff floor(yes * 10000 / (yes +    *)
(* no)) >= approval_threshold, else to REJECTED.  With quorum = 10000 and  *)
(* approval = 6667: (7000, 2000) -> QUORUM_NOT_MET, (7000, 3000) ->        *)
(* PASSED, (6000, 4000) -> REJECTED.                                       *)
(***************************************************************************)
\* The statuses the rule allows for tallies yes, no.  Where yes + no = 0
\* reaches the quotient, the rule names no value: either outcome is allowed.
RuleStatuses(yes, no, quorum, approval) ==
    IF yes + no < quorum THEN {"QUORUM_NOT_MET"}
    ELSE IF yes + no = 0 THEN {"PASSED", "REJECTED"}
    ELSE IF (yes * 10000) \div (yes + no) >= approval THEN {"PASSED"}
    ELSE {"REJECTED"}

\* finalize_proposal was just called on proposal p, which was ACTIVE.
FinalizeCalledOnActive(p) ==
    /\ last'.op = "finalize_proposal"
    /\ last' # last
    /\ last'.args.proposal_id = p
    /\ p \in DOMAIN proposal_status
    /\ proposal_status[p] = "ACTIVE"

C10_Step ==
    \A p \in ProposalIds :
        FinalizeCalledOnActive(p) =>
            LET yes == proposal_votes[p]
                no == proposal_votes_against[p]
            IN  /\ proposal_status'[p] \in
                       RuleStatuses(yes, no, quorum_threshold, approval_threshold)
                /\ (quorum_threshold = 10000 /\ approval_threshold = 6667) =>
                       /\ (yes = 7000 /\ no = 2000) =>
                              proposal_status'[p] = "QUORUM_NOT_MET"
                       /\ (yes = 7000 /\ no = 3000) => proposal_status'[p] = "PASSED"
                       /\ (yes = 6000 /\ no = 4000) => proposal_status'[p] = "REJECTED"

C10_FinalizeRule == [][C10_Step]_vars

\* The rule for the calls in which some vote was cast or the quorum is not met.
C10_StepVoted ==
    \A p \in ProposalIds :
        (FinalizeCalledOnActive(p)
         /\ ~(proposal_votes[p] + proposal_votes_against[p] = 0 /\ quorum_threshold = 0)) =>
            C10_Step

C10_RuleWhereVoted == [][C10_StepVoted]_vars

\* The three worked examples, each finalized under the default thresholds.
C10_ExampleQuorumNotMet ==
    \E p \in DOMAIN proposal_status :
        /\ last.op = "finalize_proposal" /\ last.err = "" /\ last.args.proposal_id = p
        /\ quorum_threshold = 10000 /\ approval_threshold = 6667
        /\ proposal_votes[p] = 7000 /\ proposal_votes_against[p] = 2000
        /\ proposal_status[p] = "QUORUM_NOT_MET"

C10_ExamplePassed ==
    \E p \in DOMAIN proposal_status :
        /\ last.op = "finalize_proposal" /\ last.err = "" /\ last.args.proposal_id = p
        /\ quorum_threshold = 10000 /\ approval_threshold = 6667
        /\ proposal_votes[p] = 7000 /\ proposal_votes_against[p] = 3000
        /\ proposal_status[p] = "PASSED"

C10_ExampleRejected ==
    \E p \in DOMAIN proposal_status :
        /\ last.op = "finalize_proposal" /\ last.err = "" /\ last.args.proposal_id = p
        /\ quorum_threshold = 10000 /\ approval_threshold = 6667
        /\ proposal_votes[p] = 6000 /\ proposal_votes_against[p] = 4000
        /\ proposal_status[p] = "REJECTED"

(***************************************************************************)
(* C11.  Proposal terminal states are final: once a proposal's status is   *)
(* PASSED, REJECTED or QUORUM_NOT_MET, no vote, finalize_proposal,         *)
(* create_proposal or initialize_governance call changes its status or its *)
(* yes/no tallies, and vote and finalize_proposal on it fail.              *)
(***************************************************************************)
TerminalStatuses == {"PASSED", "REJECTED", "QUORUM_NOT_MET"}

Terminal(p) == p \in DOMAIN proposal_status /\ proposal_status[p] \in TerminalStatuses

C11_Step ==
    \A p \in ProposalIds :
        Terminal(p) =>
            /\ p \in DOMAIN proposal_status' /\ proposal_status'[p] = proposal_status[p]
            /\ p \in DOMAIN proposal_votes' /\ proposal_votes'[p] = proposal_votes[p]
            /\ p \in DOMAIN proposal_votes_against'
            /\ proposal_votes_against'[p] = proposal_votes_against[p]
            /\ (last' # last /\ last'.op = "vote" /\ last'.args.proposal_id = p) =>
                   last'.err = ProposalNotActive
            /\ (last' # last /\ last'.op = "finalize_proposal"
                /\ last'.args.proposal_id = p) =>
                   last'.err = AlreadyFinalized

C11_TerminalFinal == [][C11_Step]_vars

\* A vote with power was refused on a proposal that missed its quorum, while
\* another call has since been made.
C11_Witness ==
    /\ last.op = "vote" /\ last.err = ProposalNotActive
    /\ last.args.vote_power > 0
    /\ Terminal(last.args.proposal_id)
    /\ proposal_status[last.args.proposal_id] = "QUORUM_NOT_MET"
    /\ Len(events) >= 3

(***************************************************************************)
(* C12.  Proposal ids are allocated by a strictly increasing counter and   *)
(* never reused: the k-th successful create_proposal returns id k,         *)
(* proposal_counter equals the number of proposals ever created, every id  *)
(* in 1..proposal_counter has a status, and a newly created proposal       *)
(* starts ACTIVE with yes-tally = no-tally = 0 without touching any        *)
(* existing proposal.                                                      *)
(***************************************************************************)
C12_Step ==
    LET created == CountEvents(events', "ProposalCreated")
    IN  /\ proposal_counter' = created
        /\ proposal_counter' >= proposal_counter
        /\ DOMAIN proposal_status' = 1..proposal_counter'
        /\ DOMAIN proposals' = 1..proposal_counter'
        /\ (last' # last /\ last'.op = "create_proposal" /\ last'.err = "") =>
               /\ last'.ret = created
               /\ created = proposal_counter + 1
               /\ created \notin DOMAIN proposal_status
               /\ events'[Len(events')].name = "ProposalCreated"
               /\ events'[Len(events')].fields[1] = created
               /\ proposal_status'[created] = "ACTIVE"
               /\ proposal_votes'[created] = 0
               /\ proposal_votes_against'[created] = 0
               /\ \A q \in DOMAIN proposal_status :
                      /\ proposal_status'[q] = proposal_status[q]
                      /\ proposals'[q] = proposals[q]
                      /\ proposal_votes'[q] = proposal_votes[q]
                      /\ proposal_votes_against'[q] = proposal_votes_against[q]
               /\ \A q \in DOMAIN fee_proposals : fee_proposals'[q] = fee_proposals[q]

C12_IdsIncrease == [][C12_Step]_vars

\* The second proposal was created after votes were cast on the first.
C12_Witness ==
    /\ last.op = "create_proposal" /\ last.err = ""
    /\ last.ret = 2
    /\ proposal_votes[1] > 0
    /\ proposal_status[2] = "ACTIVE"

(***************************************************************************)
(* C13.  vote rejections: vote fails with ProposalNotFound when the        *)
(* proposal id was never created, with ProposalNotActive when its status   *)
(* is not ACTIVE, and with NoVotingPower when power <= 0 (the checks are   *)
(* made in this order, so a rejected vote reports the first that applies); *)
(* in each case no tally, no voter history and no proposal status changes. *)
(***************************************************************************)
C13_Step ==
    (last' # last /\ last'.op = "vote") =>
        LET p == last'.args.proposal_id
            power == last'.args.vote_power
            neverCreated == CountEvents(events, "ProposalCreated") < p
            notActive == ~neverCreated /\ proposal_status[p] # "ACTIVE"
            noPower == power <= 0
        IN  /\ neverCreated => last'.err = ProposalNotFound
            /\ notActive => last'.err = ProposalNotActive
            /\ noPower => last'.err \in {ProposalNotFound, ProposalNotActive, NoVotingPower}
            /\ (noPower /\ ~neverCreated /\ ~notActive) => last'.err = NoVotingPower
            /\ (~neverCreated /\ ~notActive /\ ~noPower) => last'.err = ""
            /\ last'.err # "" =>
                   /\ proposal_votes' = proposal_votes
                   /\ proposal_votes_against' = proposal_votes_against
                   /\ voter_history' = voter_history
                   /\ proposal_status' = proposal_status
                   /\ events' = events
                   /\ last'.emitted = <<>>

C13_VoteRejections == [][C13_Step]_vars

\* A vote without power was refused on an open proposal that already has votes.
C13_Witness ==
    /\ last.op = "vote" /\ last.err = NoVotingPower
    /\ proposal_status[last.args.proposal_id] = "ACTIVE"
    /\ proposal_votes[last.args.proposal_id] > 0
    /\ voter_history # EmptyMap

(***************************************************************************)
(* C14.  vote effect: a successful vote(p, yes, power) increases exactly   *)
(* one tally of proposal p by power (the yes-tally when yes is true,       *)
(* otherwise the no-tally), leaves the other tally and every other         *)
(* proposal unchanged, and appends p once to the caller's voter history;   *)
(* hence a proposal's tallies each equal the sum of the powers of the      *)
(* successful votes cast that way, and a voter's history lists the         *)
(* proposal ids of their successful votes in order, repeats included.      *)
(***************************************************************************)
RECURSIVE SumVoteCast(_, _, _)
\* Sum of the powers of the VoteCast entries of `log` on proposal p cast as `yes`.
SumVoteCast(log, p, yes) ==
    IF log = <<>> THEN 0
    ELSE (IF log[1].name = "VoteCast" /\ log[1].fields[1] = p /\ log[1].fields[3] = yes
          THEN log[1].fields[4] ELSE 0)
         + SumVoteCast(Tail(log), p, yes)

RECURSIVE VotedOn(_, _)
\* The proposal ids of the VoteCast entries of `log` by `voter`, in order.
VotedOn(log, voter) ==
    IF log = <<>> THEN <<>>
    ELSE (IF log[1].name = "VoteCast" /\ log[1].fields[2] = voter
          THEN <<log[1].fields[1]>> ELSE <<>>)
         \o VotedOn(Tail(log), voter)

C14_Step ==
    /\ (events' # events /\ last'.op = "vote" /\ last'.err = "") =>
           LET p == last'.args.proposal_id
               yes == last'.args.vote_yes
               power == last'.args.vote_power
               voter == last'.args.sender
               before == IF voter \in DOMAIN voter_history THEN voter_history[voter]
                         ELSE <<>>
           IN  /\ proposal_votes'[p] = proposal_votes[p] + (IF yes THEN power ELSE 0)
               /\ proposal_votes_against'[p] =
                      proposal_votes_against[p] + (IF yes THEN 0 ELSE power)
               /\ DOMAIN proposal_votes' = DOMAIN proposal_votes
               /\ DOMAIN proposal_votes_against' = DOMAIN proposal_votes_against
               /\ \A q \in DOMAIN proposal_votes \ {p} :
                      /\ proposal_votes'[q] = proposal_votes[q]
                      /\ proposal_votes_against'[q] = proposal_votes_against[q]
               /\ proposal_status' = proposal_status
               /\ proposals' = proposals
               /\ voter_history'[voter] = Append(before, p)
               /\ DOMAIN voter_history' = DOMAIN voter_history \cup {voter}
               /\ \A w \in DOMAIN voter_history \ {voter} :
                      voter_history'[w] = voter_history[w]
    /\ \A p \in DOMAIN proposal_status' :
           /\ proposal_votes'[p] = SumVoteCast(events', p, TRUE)
           /\ proposal_votes_against'[p] = SumVoteCast(events', p, FALSE)
    /\ \A w \in Voters :
           (IF w \in DOMAIN voter_history' THEN voter_history'[w] ELSE <<>>)
               = VotedOn(events', w)

C14_VoteEffect == [][C14_Step]_vars

\* One voter voted twice on the same proposal, another once.
C14_Witness ==
    /\ last.op = "vote" /\ last.err = ""
    /\ "V1" \in DOMAIN voter_history /\ voter_history["V1"] = <<1, 1>>
    /\ "V2" \in DOMAIN voter_history
    /\ proposal_votes[1] = 13000

(***************************************************************************)
(* C15.  slash_oracle sets reputation to max(0, current - slash_amount)    *)
(* (current taken as 0 for an unknown oracle) and revokes approval,        *)
(* emitting a removal event, exactly when the new reputation is below 100; *)
(* a slash that leaves reputation at exactly 100 or above leaves the       *)
(* approval flag unchanged.                                                *)
(***************************************************************************)
C15_Step ==
    (events' # events /\ last'.op = "slash_oracle") =>
        LET o == last'.args.oracle_addr
            current == IF o \in DOMAIN oracle_reputation THEN oracle_reputation[o] ELSE 0
            difference == current - last'.args.slash_amount
            expected == IF difference > 0 THEN difference ELSE 0
            removals == CountEvents(last'.emitted, "OracleRemoved")
        IN  /\ last'.err = ""
            /\ oracle_reputation'[o] = expected
            /\ \A x \in DOMAIN oracle_reputation \ {o} :
                   oracle_reputation'[x] = oracle_reputation[x]
            /\ expected < 100 =>
                   /\ approved_oracles'[o] = FALSE
                   /\ removals = 1
                   /\ \A x \in DOMAIN approved_oracles \ {o} :
                          approved_oracles'[x] = approved_oracles[x]
            /\ expected >= 100 =>
                   /\ approved_oracles' = approved_oracles
                   /\ removals = 0
            /\ CountEvents(last'.emitted, "OracleSlashed") = 1

C15_SlashOracle == [][C15_Step]_vars

\* A slash left an approved oracle exactly at the floor.
C15_Witness ==
    /\ last.op = "slash_oracle"
    /\ last.args.slash_amount > 0
    /\ oracle_reputation[last.args.oracle_addr] = 100
    /\ approved_oracles[last.args.oracle_addr] = TRUE

(***************************************************************************)
(* C16.  Oracle registry invariant: in every state reachable by any        *)
(* sequence of register_oracle and slash_oracle calls, an oracle whose     *)
(* reputation is below the floor of 100 is not approved (approved implies  *)
(* reputation >= 100).                                                     *)
(***************************************************************************)
C16_ApprovedImpliesFloor ==
    \A o \in DOMAIN approved_oracles :
        approved_oracles[o] = TRUE =>
            (o \in DOMAIN oracle_reputation /\ oracle_reputation[o] >= 100)

(***************************************************************************)
(* C17.  Recall is permanent: after issue_recall(ndc, batch) has succeeded *)
(* once, is_batch_recalled(ndc, batch) returns true in every later state,  *)
(* whatever operations (further recalls, enhanced submissions for this or  *)
(* other batches) follow; no operation clears the flag.                    *)
(***************************************************************************)
\* The batch ids of the recalls that have succeeded, read from the log.
RecallsIssued(log) ==
    {log[i].fields[1] : i \in {j \in 1..Len(log) : log[j].name = "DRUG_RECALL_ISSUED"}}

C17_RecallPermanent ==
    /\ \A batch_id \in RecallsIssued(events) :
           /\ batch_id \in DOMAIN recalled_batches
           /\ recalled_batches[batch_id] = TRUE
    /\ (last.op = "is_batch_recalled"
        /\ BatchId(last.args.ndc_code, last.args.batch_number) \in RecallsIssued(events)) =>
           last.ret = TRUE

\* is_batch_recalled answers true after the batch was recalled twice and
\* a claim for another batch was then accepted.
C17_Witness ==
    /\ last.op = "is_batch_recalled" /\ last.ret = TRUE
    /\ Len(events) = 3
    /\ events[1].name = "DRUG_RECALL_ISSUED"
    /\ events[2].name = "DRUG_RECALL_ISSUED" /\ events[2].fields[1] = events[1].fields[1]
    /\ events[3].name = "ClaimSubmittedEnhanced"

(***************************************************************************)
(* C18.  Recall and expiry are non-blocking warnings: a                    *)
(* submit_claim_enhanced that passes the auth and dedup checks commits the *)
(* claim and produces the same stored state and return value whether or    *)
(* not its batch is recalled or its drug is expired;                       *)
(* RECALLED_DRUG_DISPENSED is emitted iff the batch is recalled at that    *)
(* moment, and EXPIRED_DRUG_DISPENSED iff expiration < current_time        *)
(* (strictly: expiration = current_time emits nothing).                    *)
(***************************************************************************)
C18_Step ==
    (last' # last /\ last'.op = "submit_claim_enhanced") =>
        LET a == last'.args
            key == EnhancedClaimKey(a.claim_id, a.ndc_code, a.pharmacy_npi,
                                    a.dispense_date, a.batch_number, a.lot_number)
            batch_id == BatchId(a.ndc_code, a.batch_number)
            linked == IF batch_id \in DOMAIN batch_to_claims
                      THEN batch_to_claims[batch_id] ELSE <<>>
            passes == Len(a.oracle_sig) > 0 /\ key \notin DOMAIN claim_hashes
            recalled == batch_id \in RecallsIssued(events)
            expired == a.expiration_date < now
        IN  /\ passes <=> last'.err = ""
            /\ passes =>
                   \* the same writes and the same return value in all four cases
                   /\ last'.ret = key
                   /\ claim_hashes' = Put(claim_hashes, key, TRUE)
                   /\ claim_records' =
                          Put(claim_records, key,
                              EnhancedMetadata(a.claim_id, a.ndc_code, a.pharmacy_npi,
                                               a.dispense_date, a.batch_number,
                                               a.lot_number, a.expiration_date,
                                               a.country_code))
                   /\ batch_to_claims' = Put(batch_to_claims, batch_id, Append(linked, key))
                   /\ DOMAIN batch_registry' = DOMAIN batch_registry \cup {batch_id}
                   /\ pharmacy_countries' =
                          Put(pharmacy_countries, a.pharmacy_npi, a.country_code)
                   /\ expiring_inventory' =
                          Put(expiring_inventory, a.ndc_code, a.expiration_date)
                   /\ recalled_batches' = recalled_batches
                   /\ recall_events' = recall_events
                   \* the warnings
                   /\ CountEvents(last'.emitted, "RECALLED_DRUG_DISPENSED")
                          = (IF recalled THEN 1 ELSE 0)
                   /\ CountEvents(last'.emitted, "EXPIRED_DRUG_DISPENSED")
                          = (IF expired THEN 1 ELSE 0)
                   /\ CountEvents(last'.emitted, "ClaimSubmittedEnhanced") = 1
                   /\ Len(last'.emitted)
                          = 1 + (IF recalled THEN 1 ELSE 0) + (IF expired THEN 1 ELSE 0)
                   /\ events' = events \o last'.emitted

C18_NonBlockingWarnings == [][C18_Step]_vars

\* A claim for a recalled batch, expiring at the current timestamp, committed
\* with the recall warning only.
C18_Witness ==
    /\ last.op = "submit_claim_enhanced" /\ last.err = ""
    /\ last.args.expiration_date = now
    /\ CountEvents(last.emitted, "RECALLED_DRUG_DISPENSED") = 1
    /\ CountEvents(last.emitted, "EXPIRED_DRUG_DISPENSED") = 0
    /\ last.ret \in DOMAIN claim_hashes

\* A claim for an expired drug committed with the expiry warning.
C18_WitnessExpired ==
    /\ last.op = "submit_claim_enhanced" /\ last.err = ""
    /\ last.args.expiration_date < now
    /\ CountEvents(last.emitted, "EXPIRED_DRUG_DISPENSED") = 1
    /\ last.ret \in DOMAIN claim_hashes

(***************************************************************************)
(* C19.  issue_recall reports as affected_count the number of fingerprints *)
(* currently linked to the batch (0 if the batch was never seen in a       *)
(* submission), and it is idempotent on the recalled flag: issuing the     *)
(* same recall a second time leaves the recalled flag, the batch's linked  *)
(* fingerprints and all claim records exactly as after the first call.     *)
(***************************************************************************)
\* The fingerprints of the accepted submissions for batch_id, read from the log.
AcceptedForBatch(log, batch_id) ==
    {log[i].fields[1] :
        i \in {j \in 1..Len(log) : /\ log[j].name = "ClaimSubmittedEnhanced"
                                   /\ log[j].fields[4] = batch_id}}

C19_Step ==
    (events' # events /\ last'.op = "issue_recall") =>
        LET a == last'.args
            batch_id == BatchId(a.ndc_code, a.batch_number)
            linked == IF batch_id \in DOMAIN batch_to_claims
                      THEN Len(batch_to_claims[batch_id]) ELSE 0
            entry == events'[Len(events')]
        IN  /\ last'.err = ""
            /\ entry.name = "DRUG_RECALL_ISSUED"
            /\ entry.fields[1] = batch_id
            /\ entry.fields[4] = linked
            /\ linked = Cardinality(AcceptedForBatch(events, batch_id))
            /\ last'.ret = "Recall issued: " \o ToString(linked) \o " claims affected"
            /\ recalled_batches'[batch_id] = TRUE
            /\ batch_to_claims' = batch_to_claims
            /\ batch_registry' = batch_registry
            /\ claim_records' = claim_records
            /\ claim_hashes' = claim_hashes
            /\ batch_id \in RecallsIssued(events) =>
                   /\ recalled_batches' = recalled_batches
                   /\ recall_events[batch_id] = a.recall_reason =>
                          recall_events' = recall_events

C19_RecallCount == [][C19_Step]_vars

\* The same recall issued a second time, on a batch with one linked claim.
C19_Witness ==
    /\ last.op = "issue_recall" /\ last.err = ""
    /\ Len(events) >= 2
    /\ events[Len(events) - 1].name = "DRUG_RECALL_ISSUED"
    /\ events[Len(events) - 1].fields[1] = events[Len(events)].fields[1]
    /\ events[Len(events)].fields[4] = 1

\* A recall of a batch no submission has named reports zero.
C19_WitnessUnseen ==
    /\ last.op = "issue_recall" /\ last.err = ""
    /\ events[Len(events)].fields[4] = 0
    /\ events[Len(events)].fields[1] \notin DOMAIN batch_to_claims
    /\ batch_to_claims # EmptyMap

(***************************************************************************)
(* C20.  The batch record is append-only and consistent with the claim     *)
(* table: a batch's list of linked fingerprints changes only by the append *)
(* of one fingerprint per successful submit_claim_enhanced for that batch  *)
(* (earlier entries keep their position), and in every reachable state     *)
(* each fingerprint stored in the enhanced ledger appears exactly once in  *)
(* exactly one batch list, so get_batch_claims equals the number of        *)
(* accepted claims of that batch.  A batch is its batch identifier.        *)
(***************************************************************************)
\* The places <<batch, index>> at which fingerprint k is linked.
LinkedAt(links, k) ==
    {bi \in UNION {{<<b, i>> : i \in 1..Len(links[b])} : b \in DOMAIN links} :
        links[bi[1]][bi[2]] = k}

C20_Consistent ==
    /\ DOMAIN batch_to_claims = DOMAIN batch_registry
    /\ \A k \in DOMAIN claim_hashes : Cardinality(LinkedAt(batch_to_claims, k)) = 1
    /\ \A b \in DOMAIN batch_to_claims :
           /\ \A i \in 1..Len(batch_to_claims[b]) :
                  batch_to_claims[b][i] \in DOMAIN claim_hashes
           /\ Len(batch_to_claims[b]) = Cardinality(AcceptedForBatch(events, b))
    /\ last.op = "get_batch_claims" =>
           last.ret = Cardinality(AcceptedForBatch(events,
                          BatchId(last.args.ndc_code, last.args.batch_number)))

C20_Step ==
    LET submitted == /\ events' # events
                     /\ last'.op = "submit_claim_enhanced"
                     /\ last'.err = ""
        target == BatchId(last'.args.ndc_code, last'.args.batch_number)
        before(b) == IF b \in DOMAIN batch_to_claims THEN batch_to_claims[b] ELSE <<>>
    IN  /\ DOMAIN batch_to_claims \subseteq DOMAIN batch_to_claims'
        /\ \A b \in DOMAIN batch_to_claims' :
               IF submitted /\ b = target
               THEN batch_to_claims'[b] = Append(before(b), last'.ret)
               ELSE /\ b \in DOMAIN batch_to_claims
                    /\ batch_to_claims'[b] = batch_to_claims[b]
        /\ submitted => target \in DOMAIN batch_to_claims'

C20_AppendOnly == []C20_Consistent /\ [][C20_Step]_vars

\* Two fingerprints linked to one batch, in order of acceptance, and a second
\* batch on record.
C20_Witness ==
    /\ last.op = "submit_claim_enhanced" /\ last.err = ""
    /\ Cardinality(DOMAIN batch_to_claims) = 2
    /\ \E b \in DOMAIN batch_to_claims :
           /\ Len(batch_to_claims[b]) = 2
           /\ batch_to_claims[b][2] = last.ret
           /\ batch_to_claims[b][1] # last.ret

(***************************************************************************)
(* C21.  A claim record is immutable once written: after a successful      *)
(* submit_claim returning F, verify_claim(F) is true and                   *)
(* get_claim_metadata(F) returns the same metadata in every later state,   *)
(* whatever submissions follow; verify_claim of a never-submitted          *)
(* fingerprint is false and get_claim_metadata of it fails with            *)
(* "Claim not found".                                                      *)
(***************************************************************************)
\* The log entries of the accepted base submissions.
Submitted(log) == {log[i] : i \in {j \in 1..Len(log) : log[j].name = "ClaimSubmitted"}}

\* The fingerprints submit_claim has returned so far.
Returned(log) == {e.fields[1] : e \in Submitted(log)}

\* The metadata of the submission logged as e, spelled out from its logged fields.
MetadataOf(e) ==
    "{\"claim_id\":\"" \o e.fields[2] \o "\",\"ndc\":\"" \o e.fields[3]
        \o "\",\"npi\":\"" \o e.fields[4] \o "\",\"date\":" \o ToString(e.fields[5]) \o "}"

\* The first accepted submission that returned F.
FirstOf(log, F) ==
    log[CHOOSE i \in 1..Len(log) :
            /\ log[i].name = "ClaimSubmitted" /\ log[i].fields[1] = F
            /\ \A j \in 1..(i - 1) :
                   ~(log[j].name = "ClaimSubmitted" /\ log[j].fields[1] = F)]

C21_Stored ==
    /\ DOMAIN claim_hashes = Returned(events)
    /\ DOMAIN claim_records = Returned(events)
    /\ \A F \in Returned(events) :
           /\ claim_hashes[F] = TRUE
           /\ claim_records[F] = MetadataOf(FirstOf(events, F))
    /\ (last.op = "submit_claim" /\ last.err = "") => last.ret \in Returned(events)

C21_Step ==
    /\ \A F \in DOMAIN claim_records :
           /\ F \in DOMAIN claim_records'
           /\ claim_records'[F] = claim_records[F]
           /\ F \in DOMAIN claim_hashes' /\ claim_hashes'[F] = TRUE
    /\ (last' # last /\ last'.op = "verify_claim") =>
           /\ last'.err = ""
           /\ last'.ret = (last'.args.claim_key \in Returned(events))
    /\ (last' # last /\ last'.op = "get_claim_metadata") =>
           IF last'.args.claim_key \in Returned(events)
           THEN /\ last'.err = ""
                /\ last'.ret = MetadataOf(FirstOf(events, last'.args.claim_key))
           ELSE last'.err = "Claim not found"

C21_Immutable == []C21_Stored /\ [][C21_Step]_vars

\* The metadata of a fingerprint is read back after a later submission was
\* accepted.
C21_Witness ==
    /\ last.op = "get_claim_metadata" /\ last.err = ""
    /\ Len(events) = 2
    /\ last.args.claim_key = events[1].fields[1]
    /\ last.ret = MetadataOf(events[1])
    /\ events[2].fields[1] # events[1].fields[1]

\* A fingerprint never submitted is asked for while others are on record.
C21_WitnessUnknown ==
    /\ last.op = "get_claim_metadata" /\ last.err = "Claim not found"
    /\ Len(events) > 0

(***************************************************************************)
(* C22.  Cross-border KYC gate: settle_cross_border succeeds only if the   *)
(* pharmacy has been registered with kyc_verified true and has a           *)
(* registered jurisdiction at the time of the call; for an unregistered    *)
(* pharmacy, or one whose latest set_jurisdiction carried kyc_verified     *)
(* false, it fails with one of the KYC / jurisdiction errors and stores no *)
(* settlement record.                                                      *)
(***************************************************************************)
\* The positions of the registrations of pharmacy p in the log.
RegistrationsOf(log, p) ==
    {i \in 1..Len(log) : log[i].name = "JurisdictionRegistered" /\ log[i].fields[1] = p}

\* The latest registration of p (p has one).
LatestRegistration(log, p) ==
    log[CHOOSE i \in RegistrationsOf(log, p) : \A j \in RegistrationsOf(log, p) : j <= i]

KycErrors == {PharmacyNotRegistered, KYCNotVerified, JurisdictionUnknown}

C22_Step ==
    (last' # last /\ last'.op = "settle_cross_border") =>
        LET p == last'.args.pharmacy_addr
            registered == RegistrationsOf(events, p) # {}
            cleared == registered /\ LatestRegistration(events, p).fields[4] = TRUE
        IN  /\ last'.err = "" => cleared
            /\ ~cleared =>
                   /\ last'.err \in KycErrors
                   /\ cross_border_settlements' = cross_border_settlements
                   /\ conversion_history' = conversion_history
                   /\ events' = events
            /\ cleared => last'.err \notin KycErrors

C22_KycGate == [][C22_Step]_vars

\* A pharmacy registered as verified and then registered again as unverified
\* is refused.
C22_Witness ==
    /\ last.op = "settle_cross_border" /\ last.err = KYCNotVerified
    /\ \E i \in RegistrationsOf(events, last.args.pharmacy_addr) :
           events[i].fields[4] = TRUE
    /\ "USD_EUR" \in DOMAIN exchange_rates
    /\ last.args.target_currency \in DOMAIN supported_currencies

\* An unregistered pharmacy is refused.
C22_WitnessUnregistered ==
    /\ last.op = "settle_cross_border" /\ last.err = PharmacyNotRegistered
    /\ kyc_verified # EmptyMap

\* A verified pharmacy is settled.
C22_WitnessSettled ==
    /\ last.op = "settle_cross_border" /\ last.err = ""
    /\ last.args.claim_key \in DOMAIN cross_border_settlements

(***************************************************************************)
(* C23.  Jurisdiction fee cap: settle_cross_border fails whenever the fee  *)
(* rate in force for the pharmacy's jurisdiction exceeds that              *)
(* jurisdiction's cap (US 300 bps, EU 250 bps, CA 200 bps, any other 300   *)
(* bps), with "Fee exceeds jurisdiction cap" when the checks made before   *)
(* it (KYC, rate, conversion) pass; hence every persisted cross-border     *)
(* settlement has fee = floor(converted * fee_bps / 10000) with            *)
(* fee_bps <= cap, and payout = converted - fee.                           *)
(***************************************************************************)
\* The caps as the claim lists them.
ClaimedCap(j) ==
    CASE j = "US" -> 300
      [] j = "EU" -> 250
      [] j = "CA" -> 200
      [] OTHER -> 300

\* The positions of the registrations naming jurisdiction j in the log.
FeeSettingsOf(log, j) ==
    {i \in 1..Len(log) : log[i].name = "JurisdictionRegistered" /\ log[i].fields[2] = j}

\* The fee rate in force for j: the one of the latest registration naming j.
FeeInForce(log, j) ==
    log[CHOOSE i \in FeeSettingsOf(log, j) : \A k \in FeeSettingsOf(log, j) : k <= i].fields[3]

\* q = floor(n / d), said without dividing: q * d <= n < (q + 1) * d.
IsFloorOf(q, n, d) ==
    /\ ~WideLess(n, WideMul(q, Wide(d)))
    /\ WideLess(n, WideMul(Carry(q, 1), Wide(d)))

C23_Step ==
    (last' # last /\ last'.op = "settle_cross_border"
        /\ RegistrationsOf(events, last'.args.pharmacy_addr) # {}) =>
        LET a == last'.args
            j == LatestRegistration(events, a.pharmacy_addr).fields[2]
            fee_bps == FeeInForce(events, j)
            entry == events'[Len(events')]
            converted == entry.fields[4]
            fee == entry.fields[5]
        IN  /\ fee_bps > ClaimedCap(j) =>
                   /\ last'.err # ""
                   /\ cross_border_settlements' = cross_border_settlements
                   /\ last'.err \notin {RateUnavailable, ArithmeticOverflow} =>
                          last'.err = FeeExceedsJurisdictionCap
            /\ fee_bps <= ClaimedCap(j) => last'.err # FeeExceedsJurisdictionCap
            /\ last'.err = "" =>
                   /\ fee_bps <= ClaimedCap(j)
                   /\ entry.name = "CrossBorderSettlement"
                   /\ entry.fields[6] = j
                   /\ IsFloorOf(fee, WideMul(converted, Wide(fee_bps)), 10000)
                   /\ ~WideLess(converted, fee)
                   /\ last'.ret[2] = Millionths(WideSub(converted, fee))
                   /\ cross_border_settlements'[a.claim_key] =
                          SettlementMetadata(a.claim_key, a.rebate_amount_usd,
                                             a.target_currency, converted,
                                             exchange_rates["USD_" \o a.target_currency],
                                             j, fee, now)

C23_FeeCap == [][C23_Step]_vars

\* A Canadian pharmacy at 201 bps is refused for the cap although rate and
\* currency are in place.
C23_Witness ==
    /\ last.op = "settle_cross_border" /\ last.err = FeeExceedsJurisdictionCap
    /\ pharmacy_jurisdictions[last.args.pharmacy_addr] = "CA"
    /\ jurisdiction_fees["CA"] = 201
    /\ last.args.target_currency \in DOMAIN supported_currencies

\* A settlement is persisted at the EU cap with a fee that was rounded down.
C23_WitnessPersisted ==
    /\ last.op = "settle_cross_border" /\ last.err = ""
    /\ events[Len(events)].fields[6] = "EU"
    /\ jurisdiction_fees["EU"] = 250
    /\ last.args.rebate_amount_usd = Wide(3333)
    /\ events[Len(events)].fields[5] = Wide(76)

(***************************************************************************)
(* C24.  Currency conversion: with rate r registered under USD_<T>,        *)
(* estimate_conversion(a, T) returns floor(a * r / 1_000_000) for every    *)
(* amount a, and this equals the converted amount settle_cross_border      *)
(* records for the same amount and target; e.g. rate USD_EUR = 920000      *)
(* gives estimate_conversion(100_000_000, EUR) = 92_000_000.  The rate     *)
(* used is always the most recently registered one for that key.           *)
(***************************************************************************)
\* The positions of the rate updates for the pair USD -> target in the log.
RateUpdatesOf(log, target) ==
    {i \in 1..Len(log) : /\ log[i].name = "ExchangeRateUpdated"
                         /\ log[i].fields[1] = "USD" /\ log[i].fields[2] = target}

\* The most recently registered rate for USD -> target (there is one).
LatestRate(log, target) ==
    log[CHOOSE i \in RateUpdatesOf(log, target) :
            \A k \in RateUpdatesOf(log, target) : k <= i].fields[3]

\* An estimate for a target with a registered rate returns the floor.
C24_Estimate ==
    (last' # last /\ last'.op = "estimate_conversion"
        /\ RateUpdatesOf(events, last'.args.target_currency) # {}) =>
        LET r == LatestRate(events, last'.args.target_currency)
            a == last'.args.amount_usd
        IN  /\ last'.err = ""
            /\ IsFloorOf(last'.ret, WideMul(a, Wide(r)), 1000000)
            /\ (a = Wide(100000000) /\ r = 920000) => last'.ret = Wide(92000000)

\* A settlement records the same floor, at the latest rate.
C24_Settled ==
    (last' # last /\ last'.op = "settle_cross_border" /\ last'.err = "") =>
        LET r == LatestRate(events, last'.args.target_currency)
            a == last'.args.rebate_amount_usd
            converted == events'[Len(events')].fields[4]
        IN  /\ RateUpdatesOf(events, last'.args.target_currency) # {}
            /\ IsFloorOf(converted, WideMul(a, Wide(r)), 1000000)
            /\ conversion_history'[last'.args.claim_key] =
                   ConversionData(a, last'.args.target_currency, converted, r)

C24_Conversion == [][C24_Estimate /\ C24_Settled]_vars

\* The same, for the amounts whose product with the rate fits 64 bits.
C24_EstimateWhereProductFits ==
    (last' # last /\ last'.op = "estimate_conversion"
        /\ RateUpdatesOf(events, last'.args.target_currency) # {}) =>
        LET r == LatestRate(events, last'.args.target_currency)
            a == last'.args.amount_usd
        IN  IF WideLess(WideMul(a, Wide(r)), TwoTo64)
            THEN /\ last'.err = ""
                 /\ IsFloorOf(last'.ret, WideMul(a, Wide(r)), 1000000)
                 /\ (a = Wide(100000000) /\ r = 920000) => last'.ret = Wide(92000000)
            ELSE last'.err = ArithmeticOverflow

C24_ConversionWhereProductFits == [][C24_EstimateWhereProductFits /\ C24_Settled]_vars

\* The example of the claim, after the rate was revised from 930000.
C24_Example ==
    /\ last.op = "estimate_conversion" /\ last.err = ""
    /\ last.args.amount_usd = Wide(100000000) /\ last.ret = Wide(92000000)
    /\ Cardinality(RateUpdatesOf(events, "EUR")) = 2

(***************************************************************************)
(* C25.  Rate lookup is by the ordered pair USD_<TARGET> only: when no     *)
(* rate has been registered under exactly that key the lookup of           *)
(* settle_cross_border fails with "Exchange rate not available" (once the  *)
(* KYC checks have passed), even if a rate for the reverse pair            *)
(* <TARGET>_USD is registered, and no settlement record is stored; the     *)
(* estimate derives nothing from the reverse pair either.                  *)
(***************************************************************************)
\* Some rate was registered for the ordered pair from -> to.
RateRegistered(log, from, to) ==
    \E i \in 1..Len(log) : /\ log[i].name = "ExchangeRateUpdated"
                           /\ log[i].fields[1] = from /\ log[i].fields[2] = to

C25_Step ==
    /\ (last' # last /\ last'.op = "settle_cross_border"
           /\ ~RateRegistered(events, "USD", last'.args.target_currency)) =>
           /\ last'.err # ""
           /\ last'.err \notin KycErrors => last'.err = RateUnavailable
           /\ cross_border_settlements' = cross_border_settlements
           /\ conversion_history' = conversion_history
           /\ events' = events
    /\ (last' # last /\ last'.op = "settle_cross_border" /\ last'.err = RateUnavailable) =>
           ~RateRegistered(events, "USD", last'.args.target_currency)
    /\ (last' # last /\ last'.op = "estimate_conversion"
           /\ ~RateRegistered(events, "USD", last'.args.target_currency)) =>
           /\ last'.err = ""
           /\ last'.ret = Wide(0)

SettledKeys(log) ==
    {log[i].fields[1] : i \in {k \in 1..Len(log) : log[k].name = "CrossBorderSettlement"}}

C26_Recorded == DOMAIN cross_border_settlements = SettledKeys(events)

C26_Step ==
    LET settled == /\ last' # last /\ last'.op = "settle_cross_border"
                   /\ last'.err = ""
        a == last'.args
        entry == events'[Len(events')]
    IN  /\ \A F \in DOMAIN cross_border_settlements' :
               IF settled /\ F = a.claim_key
               THEN cross_border_settlements'[F] =
                        SettlementMetadata(F, a.rebate_amount_usd, a.target_currency,
                                           entry.fields[4],
                                           LatestRate(events, a.target_currency),
                                           entry.fields[6], entry.fields[5], now)
               ELSE /\ F \in DOMAIN cross_border_settlements
                    /\ cross_border_settlements'[F] = cross_border_settlements[F]
        /\ settled => a.claim_key \in DOMAIN cross_border_settlements'
        /\ (last' # last /\ last'.op = "get_settlement_details") =>
               /\ last'.err = ""
               /\ last'.ret = IF last'.args.claim_key \in SettledKeys(events)
                              THEN cross_border_settlements[last'.args.claim_key]
                              ELSE "{\"status\":\"not_found\"}"

C26_DurableRecord == []C26_Recorded /\ [][C26_Step]_vars

\* A fingerprint settled for 100 USD and then for 3333 micro-USD reads back the
\* second settlement.
C26_Witness ==
    /\ last.op = "get_settlement_details" /\ last.args.claim_key = <<1>>
    /\ Len(events) = 5
    /\ events[4].name = "CrossBorderSettlement" /\ events[4].fields[1] = <<1>>
    /\ events[4].fields[4] = Wide(92000000)
    /\ events[5].name = "CrossBorderSettlement" /\ events[5].fields[1] = <<1>>
    /\ last.ret = SettlementMetadata(<<1>>, Wide(3333), "EUR", Wide(3066), 920000,
                                     "US", Wide(91), 100)

\* A fingerprint not settled reads not-found while another is on record.
C26_WitnessNotFound ==
    /\ last.op = "get_settlement_details"
    /\ last.ret = "{\"status\":\"not_found\"}"
    /\ cross_border_settlements # EmptyMap

(***************************************************************************)
(* C27.  AML flagging is non-blocking: for identical inputs and registry   *)
(* state, settle_cross_border has the same success/failure outcome,        *)
(* computes the same converted amount, fee and payout, and stores the same *)
(* record whether or not the pharmacy carries an AML flag; the only        *)
(* difference is that AMLReviewRequired is emitted when a flag is present. *)
(* Stated as: the outcome, the amounts and the record of every settle are  *)
(* the values below, which are read from the registrations, rates and      *)
(* currencies alone, and the review event is there exactly for a flagged   *)
(* pharmacy.                                                               *)
(***************************************************************************)
\* p has been flagged (flags are never cleared).
Flagged(log, p) ==
    \E i \in 1..Len(log) : log[i].name = "AML_FLAG_RAISED" /\ log[i].fields[1] = p

\* The outcome of a settle as the registry alone decides it.
UnflaggedOutcome(log, currencies, a) ==
    IF RegistrationsOf(log, a.pharmacy_addr) = {} THEN PharmacyNotRegistered
    ELSE IF LatestRegistration(log, a.pharmacy_addr).fields[4] # TRUE THEN KYCNotVerified
    ELSE IF RateUpdatesOf(log, a.target_currency) = {} THEN RateUnavailable
    ELSE IF FeeInForce(log, LatestRegistration(log, a.pharmacy_addr).fields[2])
                > ClaimedCap(LatestRegistration(log, a.pharmacy_addr).fields[2])
         THEN FeeExceedsJurisdictionCap
    ELSE IF a.target_currency \notin DOMAIN currencies THEN CurrencyNotSupported
    ELSE ""

C27_Step ==
    (last' # last /\ last'.op = "settle_cross_border") =>
        LET a == last'.args
            flagged == Flagged(events, a.pharmacy_addr)
            reviews == {i \in 1..Len(last'.emitted) :
                            last'.emitted[i].name = "AML_REVIEW_REQUIRED"}
            entry == events'[Len(events')]
            converted == entry.fields[4]
            fee == entry.fields[5]
            j == LatestRegistration(events, a.pharmacy_addr).fields[2]
        IN  /\ last'.err = UnflaggedOutcome(events, supported_currencies, a)
            /\ last'.err # "" => /\ events' = events
                                 /\ cross_border_settlements' = cross_border_settlements
            /\ last'.err = "" =>
                   /\ reviews = IF flagged THEN {1} ELSE {}
                   /\ Len(last'.emitted) = IF flagged THEN 2 ELSE 1
                   /\ events' = events \o last'.emitted
                   /\ flagged => last'.emitted[1].fields =
                                     <<a.pharmacy_addr, a.claim_key,
                                       aml_flags[a.pharmacy_addr]>>
                   /\ entry.name = "CrossBorderSettlement"
                   /\ IsFloorOf(converted,
                                WideMul(a.rebate_amount_usd,
                                        Wide(LatestRate(events, a.target_currency))),
                                1000000)
                   /\ IsFloorOf(fee, WideMul(converted, Wide(FeeInForce(events, j))),
                                10000)
                   /\ last'.ret[2] = Millionths(WideSub(converted, fee))
                   /\ cross_border_settlements'[a.claim_key] =
                          SettlementMetadata(a.claim_key, a.rebate_amount_usd,
                                             a.target_currency, converted,
                                             LatestRate(events, a.target_currency),
                                             j, fee, now)

C27_NonBlocking == [][C27_Step]_vars

\* The settlement of 100 USD at 0.92 and 3%, as every settle event of such a
\* call reads.
C27_Settlement ==
    Event("CrossBorderSettlement",
          <<(<<1>>), "P1", "EUR", Wide(92000000), Wide(2760000), "US">>)

\* A flagged pharmacy is settled: the review event, then the settlement.
C27_Witness ==
    /\ last.op = "settle_cross_border" /\ last.err = ""
    /\ Flagged(events, "P1")
    /\ Len(last.emitted) = 2
    /\ last.emitted[1].name = "AML_REVIEW_REQUIRED"
    /\ last.emitted[2] = C27_Settlement

\* The same settlement of the pharmacy before it is flagged.
C27_WitnessUnflagged ==
    /\ last.op = "settle_cross_border" /\ last.err = ""
    /\ ~Flagged(events, "P1")
    /\ last.emitted = <<C27_Settlement>>

\* A flagged pharmacy's settlement is rejected as an unflagged one's would be.
C27_WitnessRejected ==
    /\ last.op = "settle_cross_border" /\ last.err = CurrencyNotSupported
    /\ Flagged(events, "P1")

(***************************************************************************)
(* The cross-border and the escrow contracts together: the two contracts   *)
(* in which an assert can fail after the call has written or logged.       *)
(***************************************************************************)
InitCore ==
    /\ app \in {"CrossBorderSettlementContract", "EscrowSettlementContract",
                "AuditRailContract"}
    /\ InitCommon

NextCore == NextCompliance \/ EscrowCalls

SpecCore == InitCore /\ [][NextCore]_vars

(***************************************************************************)
(* C28.  Rejections are side-effect-free: whenever a core operation is     *)
(* rejected, every stored table and configuration value is as it was       *)
(* before the call and no event of that call remains emitted.  In          *)
(* particular a settle_cross_border for an AML-flagged pharmacy that is    *)
(* rejected for a missing rate, an exceeded fee cap or an unsupported      *)
(* currency leaves no AMLReviewRequired event and no record, and an        *)
(* initialize rejected for a cap above 300 leaves the configured asset id  *)
(* unchanged.                                                              *)
(***************************************************************************)
C28_Step ==
    (last' # last /\ last'.err # "") =>
        /\ storage' = storage
        /\ events' = events
        /\ last'.emitted = <<>>

\* A call that repeats the previous rejected call leaves `last` as it is; what
\* it may change is then told from the stored state alone.
C28_Repeated ==
    (last' = last /\ last.err # "") => (storage' = storage /\ events' = events)

C28_FlaggedRejected(msg) ==
    /\ last.op = "settle_cross_border" /\ last.err = msg
    /\ last.args.pharmacy_addr \in DOMAIN aml_flags
    /\ \A i \in 1..Len(events) : events[i].name # "AML_REVIEW_REQUIRED"
    /\ cross_border_settlements = EmptyMap

C28_WitnessNoRate == C28_FlaggedRejected(RateUnavailable)

C28_WitnessCurrency == C28_FlaggedRejected(CurrencyNotSupported)

\* An initialize rejected for its cap after an accepted one: the asset id is
\* the accepted call's.
C28_WitnessInitialize ==
    /\ last.op = "initialize" /\ last.err = FeeCapTooHigh
    /\ usdc_asset_id # Unset
    /\ usdc_asset_id # Assigned(last.args.usdc_asset_id)

(***************************************************************************)
(* C29.  calculate_accrual for a manufacturer with no registered schedule  *)
(* fails with ManufacturerNotRegistered and writes neither an AccrualRecord*)
(* nor a ManufacturerTotal; get_manufacturer_total of a manufacturer that  *)
(* never registered returns 0, and once a manufacturer has registered      *)
(* every later calculate_accrual naming it passes this check (schedules    *)
(* are never removed).                                                     *)
(***************************************************************************)
\* m has registered a schedule at some point of the log.
ScheduleLogged(log, m) ==
    \E i \in 1..Len(log) : log[i].name = "ScheduleRegistered" /\ log[i].fields[1] = m

\* A schedule, once registered, stays; a manufacturer that never registered
\* has neither a schedule nor a total.
C29_Kept ==
    \A m \in Manufacturers :
        /\ (m \in DOMAIN tier_schedules) <=> ScheduleLogged(events, m)
        /\ (m \in DOMAIN total_accrued) <=> ScheduleLogged(events, m)

C29_Step ==
    /\ (last' # last /\ last'.op = "calculate_accrual") =>
           IF ScheduleLogged(events, last'.args.manufacturer)
           THEN last'.err # ManufacturerNotRegistered
           ELSE /\ last'.err = ManufacturerNotRegistered
                /\ accrued_liabilities' = accrued_liabilities
                /\ total_accrued' = total_accrued
                /\ events' = events
    /\ (last' # last /\ last'.op = "get_manufacturer_total"
            /\ ~ScheduleLogged(events, last'.args.manufacturer)) =>
           (last'.err = "" /\ last'.ret = 0)

C29_RegistrationCheck == []C29_Kept /\ [][C29_Step]_vars

\* An accrual for a manufacturer without a schedule is rejected while another
\* manufacturer has one and has accrued.
C29_Witness ==
    /\ last.op = "calculate_accrual" /\ last.err = ManufacturerNotRegistered
    /\ last.args.manufacturer = "MFR2"
    /\ "MFR1" \in DOMAIN tier_schedules
    /\ total_accrued["MFR1"] > 0
    /\ "MFR2" \notin DOMAIN total_accrued

\* The total of a manufacturer that never registered reads 0.
C29_WitnessTotal ==
    /\ last.op = "get_manufacturer_total" /\ last.ret = 0
    /\ ~ScheduleLogged(events, last.args.manufacturer)
    /\ accrued_liabilities # EmptyMap

\* An accrual passes the check after the manufacturer re-registered.
C29_WitnessLater ==
    /\ last.op = "calculate_accrual" /\ last.err = ""
    /\ Cardinality({i \in 1..Len(events) :
                        /\ events[i].name = "ScheduleRegistered"
                        /\ events[i].fields[1] = last.args.manufacturer}) = 2

(***************************************************************************)
(* C30.  register_schedule replaces the caller's schedule wholesale and    *)
(* touches nothing else: afterwards the caller's schedule is exactly       *)
(* (base_bps, threshold, bonus_bps) with no field kept from a prior        *)
(* schedule, every other manufacturer's schedule, every AccrualRecord and  *)
(* every existing ManufacturerTotal are unchanged, and the stored result   *)
(* is identical whether excludes_biosimilars is true or false              *)
(* (FormularyLockEvent is emitted iff it is true and never blocks          *)
(* registration).                                                          *)
(***************************************************************************)
C30_Step ==
    ((last' # last \/ events' # events) /\ last'.op = "register_schedule") =>
        LET a == last'.args
            locks == {i \in 1..Len(last'.emitted) :
                          last'.emitted[i].name = "FORMULARY_LOCK_EVENT"}
        IN  /\ last'.err = ""
            /\ DOMAIN tier_schedules' = DOMAIN tier_schedules \cup {a.sender}
            /\ tier_schedules'[a.sender] = <<a.base_bps, a.threshold, a.bonus_bps>>
            /\ \A m \in DOMAIN tier_schedules :
                   m # a.sender => tier_schedules'[m] = tier_schedules[m]
            /\ accrued_liabilities' = accrued_liabilities
            /\ DOMAIN total_accrued' = DOMAIN total_accrued \cup {a.sender}
            /\ \A m \in DOMAIN total_accrued : total_accrued'[m] = total_accrued[m]
            /\ a.sender \notin DOMAIN total_accrued => total_accrued'[a.sender] = 0
            /\ locks = IF a.excludes_biosimilars THEN {1} ELSE {}
            /\ Len(last'.emitted) = IF a.excludes_biosimilars THEN 2 ELSE 1
            /\ last'.emitted[Len(last'.emitted)] =
                   Event("ScheduleRegistered",
                         <<a.sender, a.base_bps, a.threshold, a.bonus_bps>>)
            /\ events' = events \o last'.emitted

C30_WholesaleReplace == [][C30_Step]_vars

\* A manufacturer with an accrual re-registers with another schedule, flagged
\* as excluding biosimilars, while another manufacturer has a schedule.
C30_Witness ==
    /\ last.op = "register_schedule" /\ last.args.excludes_biosimilars
    /\ last.args.sender = "MFR1"
    /\ \E i \in 1..Len(events) :
           /\ events[i].name = "ScheduleRegistered"
           /\ events[i].fields[1] = "MFR1"
           /\ events[i].fields[3] # last.args.threshold
    /\ tier_schedules["MFR1"] = <<last.args.base_bps, last.args.threshold,
                                  last.args.bonus_bps>>
    /\ total_accrued["MFR1"] > 0

\* The same registration without the flag.
C30_WitnessUnflagged ==
    /\ last.op = "register_schedule" /\ ~last.args.excludes_biosimilars
    /\ Len(last.emitted) = 1
    /\ "MFR2" \in DOMAIN tier_schedules /\ last.args.sender = "MFR1"
    /\ accrued_liabilities # EmptyMap

(***************************************************************************)
(* C31.  initialize is a one-time configuration: after one successful      *)
(* initialize, the configured admin fee cap (and settlement asset) is      *)
(* never changed by any later call, i.e. a second initialize does not take *)
(* effect.                                                                 *)
(***************************************************************************)
C31_Step ==
    IsSet(admin_fee_cap) =>
        /\ admin_fee_cap' = admin_fee_cap
        /\ usdc_asset_id' = usdc_asset_id

C31_OneTime == [][C31_Step]_vars

(***************************************************************************)
(* The pipeline: the ledger, the rebate engine and the two settlement      *)
(* contracts deployed side by side, a client calling one after another.    *)
(***************************************************************************)
MaxPipelineLog == 7         \* log entries a pipeline run may commit

PipelineApps ==
    {"ClaimIngestionContract", "RebateEngineContract", "EscrowSettlementContract",
     "CrossBorderSettlementContract"}
PipelineDates == {1}
\* A digest as the byte string the later stages are handed: the bytes that
\* stand for the 32 digest bytes, one string per digest.
DigestBytes(h) == h.sha256_of

\* The fingerprints of the claims the client submits.
PipelineKeys == {DigestBytes(ClaimKey("a", "c", "n", t, <<1>>)) : t \in PipelineDates}
\* The accrual of a price of 19999 at 15%, and another amount.
PipelineAmounts == {2999, 10000}

\* The client's next call goes to application a.
call_application(a) ==
    /\ a # app
    /\ app' = a
    /\ UNCHANGED <<now, events, last, storage>>

InitPipeline ==
    /\ app \in PipelineApps
    /\ InitCommon

NextPipeline ==
    \/ \E a \in PipelineApps : call_application(a)
    \/ \E t \in PipelineDates : submit_claim("a", "c", "n", t, <<1>>)
    \/ register_schedule("MFR1", 1500, 1000, 500, FALSE)
    \/ \E k \in PipelineKeys : calculate_accrual(k, "MFR1", 19999, 0)
    \/ initialize(31566704, 300) /\ Len(events') <= MaxEscrowLog
    \/ \E k \in PipelineKeys, r \in PipelineAmounts :
           claim_rebate(k, r, "PHARMACY", "PBM", 0,
                        <<[type |-> "pay", amount |-> 1000], ApplCall>>, "accept")
               /\ Len(events') <= MaxEscrowLog
    \/ set_jurisdiction("P1", "US", 300, TRUE) /\ Len(events') <= MaxPipelineLog
    \/ update_exchange_rate("USD", "EUR", 920000) /\ Len(events') <= MaxPipelineLog
    \/ register_currency("EUR", 31) /\ Len(events') <= MaxPipelineLog
    \/ \E k \in PipelineKeys :
           settle_cross_border(k, Wide(2999), "P1", "EUR", 0)
               /\ Len(events') <= MaxPipelineLog

SpecPipeline == InitPipeline /\ [][NextPipeline]_vars

(***************************************************************************)
(* C32.  Pipeline ordering: a fingerprint is settled (claim_rebate or      *)
(* settle_cross_border succeeds for it) only after an accrual was computed *)
(* for that fingerprint, and an accrual is computed only for a fingerprint *)
(* that ClaimLedger has previously accepted; the amount disbursed by the   *)
(* settlement is the accrued amount for that fingerprint.                  *)
(***************************************************************************)
\* The amount of the latest accrual computed for fingerprint k.
AccruedFor(log, k) ==
    LET at == {i \in 1..Len(log) : log[i].name = "RebateCalculated"
                                       /\ log[i].fields[1] = k}
    IN  log[CHOOSE i \in at : \A j \in at : j <= i].fields[5]

AccrualLogged(log, k) ==
    \E i \in 1..Len(log) : log[i].name = "RebateCalculated" /\ log[i].fields[1] = k

ClaimLogged(log, k) ==
    \E i \in 1..Len(log) :
        log[i].name = "ClaimSubmitted" /\ DigestBytes(log[i].fields[1]) = k

\* An accrual is computed only for an accepted fingerprint.
C32_AccrualAfterClaim ==
    (last' # last /\ last'.op = "calculate_accrual" /\ last'.err = "") =>
        ClaimLogged(events, last'.args.claim_key)

\* A settlement follows an accrual for its fingerprint and disburses it.
C32_SettlementAfterAccrual ==
    /\ (last' # last /\ last'.op = "claim_rebate" /\ last'.err = "") =>
           /\ AccrualLogged(events, last'.args.claim_key)
           /\ last'.args.rebate_amount = AccruedFor(events, last'.args.claim_key)
    /\ (last' # last /\ last'.op = "settle_cross_border" /\ last'.err = "") =>
           /\ AccrualLogged(events, last'.args.claim_key)
           /\ last'.args.rebate_amount_usd =
                  Wide(AccruedFor(events, last'.args.claim_key))

C32_PipelineOrder == [][C32_AccrualAfterClaim /\ C32_SettlementAfterAccrual]_vars

\* The order the claim describes is one the contracts allow: an accepted
\* fingerprint, its accrual, then a cross-border settlement of that amount.
C32_InOrder ==
    /\ last.op = "settle_cross_border" /\ last.err = ""
    /\ ClaimLogged(events, last.args.claim_key)
    /\ AccrualLogged(events, last.args.claim_key)
    /\ last.args.rebate_amount_usd = Wide(AccruedFor(events, last.args.claim_key))

(***************************************************************************)
(* Cross-border settlements called in transaction groups.                  *)
(***************************************************************************)
MaxGroupLog == 4            \* log entries a grouped-settlement run may commit

NextGrouped ==
    \/ set_jurisdiction("P1", "US", 300, TRUE) /\ Len(events') <= MaxGroupLog
    \/ update_exchange_rate("USD", "EUR", 920000) /\ Len(events') <= MaxGroupLog
    \/ register_currency("EUR", 31) /\ Len(events') <= MaxGroupLog
    \/ \E g \in Groups, i \in OracleIndexes :
           settle_cross_border_grouped(g, <<1>>, Wide(100000000), "P1", "EUR", i)
               /\ Len(events') <= MaxGroupLog

SpecGrouped == InitCrossBorder /\ [][NextGrouped]_vars

(***************************************************************************)
(* C33.  CrossBorderSettlement applies the SettlementProcessor             *)
(* authentication pattern: settle_cross_border succeeds only when it is    *)
(* part of an atomic group of size > 1 whose transaction at                *)
(* oracle_txn_index is a payment staking at least 1000 units; otherwise it *)
(* fails before any settlement record is stored.                           *)
(***************************************************************************)
\* The group carries an oracle payment of at least 1000 at index i.
OracleStaked(group, i) ==
    /\ Len(group) > 1
    /\ i < Len(group)
    /\ group[i + 1].type = "pay"
    /\ group[i + 1].amount >= 1000

C33_Step ==
    (/\ last' # last /\ last'.op = "settle_cross_border"
     /\ ~OracleStaked(last'.args.group, last'.args.oracle_txn_index)) =>
        /\ last'.err # ""
        /\ cross_border_settlements' = cross_border_settlements

C33_OracleAuthenticated == [][C33_Step]_vars

(***************************************************************************)
(* PharmaClear (pharma_clear/contract.py).                                 *)
(***************************************************************************)
MaxSubmissions == 5         \* hashes a PharmaClear run may submit

ClaimHashes == {"h1", "h2"}

\* return UInt64(1)
submit_claim_hash(claim_hash) ==
    /\ app = "PharmaClear"
    /\ Len(submitted_hashes) < MaxSubmissions
    /\ submitted_hashes' = Append(submitted_hashes, claim_hash)
    /\ last' = [op |-> "submit_claim_hash", args |-> [claim_hash |-> claim_hash],
                err |-> "", ret |-> 1, emitted |-> <<>>, locals |-> NoLocals]
    /\ UNCHANGED <<app, now, events, notPc>>

\* return String("")
get_last_claim_hash ==
    /\ app = "PharmaClear"
    /\ Return("get_last_claim_hash", <<>>, "")

\* return UInt64(0)
get_claim_count ==
    /\ app = "PharmaClear"
    /\ Return("get_claim_count", <<>>, 0)

InitPharmaClear ==
    /\ app = "PharmaClear"
    /\ InitCommon

NextPharmaClear ==
    \/ \E h \in ClaimHashes : submit_claim_hash(h)
    \/ get_last_claim_hash
    \/ get_claim_count

SpecPharmaClear == InitPharmaClear /\ [][NextPharmaClear]_vars

(***************************************************************************)
(* C34.  PharmaClear claim counter: submit_claim_hash increments the       *)
(* global claim counter, stores the hash as the most recent claim and      *)
(* returns the new claim id, so on a fresh contract get_claim_count is 0   *)
(* and get_last_claim_hash is the empty string, the first                  *)
(* submit_claim_hash returns 1, and after n submissions get_claim_count    *)
(* returns n, get_last_claim_hash returns the hash of the n-th submission  *)
(* and the n-th call returned n.                                           *)
(***************************************************************************)
C34_ClaimCounter ==
    /\ last.op = "submit_claim_hash" => last.ret = Len(submitted_hashes)
    /\ last.op = "get_claim_count" => last.ret = Len(submitted_hashes)
    /\ last.op = "get_last_claim_hash" =>
           last.ret = IF submitted_hashes = <<>> THEN ""
                      ELSE submitted_hashes[Len(submitted_hashes)]

\* What does hold: the values of a fresh contract and of the first submission.
C34_Fresh ==
    /\ (last.op = "submit_claim_hash" /\ Len(submitted_hashes) = 1) => last.ret = 1
    /\ (last.op = "get_claim_count" /\ submitted_hashes = <<>>) => last.ret = 0
    /\ (last.op = "get_last_claim_hash" /\ submitted_hashes = <<>>) => last.ret = ""

(***************************************************************************)
(* C35.  No false duplicates: submit_claim (and submit_claim_enhanced)     *)
(* rejects a submission as DuplicateClaim only if a submission with        *)
(* field-by-field identical hashed inputs was accepted before; two         *)
(* submissions that differ in at least one hashed field (e.g. claim id     *)
(* 'ab' with drug code 'c' versus claim id 'a' with drug code 'bc', the    *)
(* fields being concatenated without separators before hashing) get        *)
(* different fingerprints, and likewise two distinct (drug code, batch     *)
(* number) pairs never share a batch id.                                   *)
(***************************************************************************)
\* A rejection as duplicate has an accepted submission with the same hashed
\* fields behind it.
C35_RejectedOnlyIfSame ==
    (last' # last /\ last'.op \in SubmitOps
        /\ last'.err \in {DuplicateClaim, DuplicateClaimEnhanced}) =>
        AcceptedAs(last'.args) # {}

\* A submission that differs from every accepted one in some hashed field
\* gets a fingerprint none of them has.
C35_DistinctFingerprints ==
    (last' # last /\ last'.op \in SubmitOps /\ Len(last'.args.oracle_sig) > 0
        /\ AcceptedAs(last'.args) = {}) =>
        \A a \in DOMAIN accepted :
            DOMAIN a = DOMAIN last'.args =>
                accepted[a] # (IF last'.err = "" THEN last'.ret
                               ELSE last'.locals.claim_key)

\* Accepted enhanced submissions with the same batch id name the same drug
\* code and batch number.
C35_DistinctBatchIds ==
    \A a, b \in {x \in DOMAIN accepted' : "batch_number" \in DOMAIN x} :
        BatchId(a.ndc_code, a.batch_number) = BatchId(b.ndc_code, b.batch_number)
            => (a.ndc_code = b.ndc_code /\ a.batch_number = b.batch_number)

C35_NoFalseDuplicates ==
    [][C35_RejectedOnlyIfSame /\ C35_DistinctFingerprints /\ C35_DistinctBatchIds]_vars

(***************************************************************************)
(* C36.  The base-ledger fingerprint covers the auth proof while the       *)
(* enhanced one does not: two submit_claim calls with the same identity    *)
(* fields but different non-empty auth proofs get different fingerprints   *)
(* and are both accepted as distinct claims, whereas two                   *)
(* submit_claim_enhanced calls with the same identity and batch/lot fields *)
(* are deduplicated regardless of auth proof, expiration date or country   *)
(* code.                                                                   *)
(***************************************************************************)
IdentityFields == {"claim_id", "ndc_code", "pharmacy_npi", "dispense_date"}

\* The accepted submissions of the same method that agree with args on fields.
AcceptedAlike(args, fields) ==
    {a \in DOMAIN accepted :
        DOMAIN a = DOMAIN args /\ \A f \in fields : a[f] = args[f]}

\* The fingerprint a submission computed, accepted or not.
FingerprintOf(l) == IF l.err = "" THEN l.ret ELSE l.locals.claim_key

\* A base submission whose identity was accepted before under other proofs
\* only gets a fingerprint of its own.
C36_ProofFingerprinted ==
    (/\ last' # last /\ last'.op = "submit_claim"
     /\ Len(last'.args.oracle_sig) > 0
     /\ AcceptedAlike(last'.args, IdentityFields) # {}
     /\ AcceptedAlike(last'.args, IdentityFields \cup {"oracle_sig"}) = {}) =>
        \A a \in AcceptedAlike(last'.args, IdentityFields) :
            accepted[a] # FingerprintOf(last')

\* ... and is accepted as a claim of its own.
C36_ProofAccepted ==
    (/\ last' # last /\ last'.op = "submit_claim"
     /\ Len(last'.args.oracle_sig) > 0
     /\ AcceptedAlike(last'.args, IdentityFields) # {}
     /\ AcceptedAlike(last'.args, IdentityFields \cup {"oracle_sig"}) = {}) =>
        /\ last'.err = ""
        /\ last'.ret \in DOMAIN claim_hashes' \ DOMAIN claim_hashes

\* An enhanced submission whose identity, batch and lot were accepted before is
\* a duplicate whatever its proof, expiration date and country code.
C36_EnhancedDeduplicated ==
    (/\ last' # last /\ last'.op = "submit_claim_enhanced"
     /\ Len(last'.args.oracle_sig) > 0
     /\ AcceptedAlike(last'.args, HashedFields("submit_claim_enhanced")) # {}) =>
        /\ last'.err = DuplicateClaimEnhanced
        /\ \A a \in AcceptedAlike(last'.args, HashedFields("submit_claim_enhanced")) :
               accepted[a] = last'.locals.claim_key
        /\ claim_hashes' = claim_hashes

C36_FingerprintCoverage ==
    [][C36_ProofFingerprinted /\ C36_ProofAccepted /\ C36_EnhancedDeduplicated]_vars


(***************************************************************************)
(* Repeated settlements of one fingerprint.                                *)
(***************************************************************************)
MaxRepeatLog == 3           \* log entries a repeated-settlement run may commit

NextRepeat ==
    \/ \E c \in FeeCaps : initialize(31566704, c) /\ Len(events') <= MaxRepeatLog
    \/ \E r \in RebateAmounts, g \in Groups, v \in LedgerVerdicts :
           claim_rebate(<<1>>, r, "PHARMACY", "PBM", 0, g, v)
               /\ Len(events') <= MaxRepeatLog
    \/ \E t \in Times : new_block(t)

SpecRepeat == InitEscrow /\ [][NextRepeat]_vars

(***************************************************************************)
(* C37.  claim_rebate keeps no record of settled fingerprints.  Its        *)
(* outcome is decided by its arguments, the transaction group and the      *)
(* configured cap and asset: a call in an invalid group is rejected at the *)
(* gate, a call in a valid group on a configured escrow is refused only by *)
(* the ledger, whatever was settled before, and a call that succeeds       *)
(* transfers the whole rebate_amount, split between pharmacy and PBM by    *)
(* the configured cap, and logs one RebateSettled entry.                   *)
(***************************************************************************)
\* The transaction at oracle_txn_index is a payment of the minimum stake.
ValidGroup(g, i) ==
    /\ Len(g) > 1
    /\ i < Len(g)
    /\ g[i + 1].type = "pay"
    /\ g[i + 1].amount >= 1000

\* The positions of the RebateSettled entries logged for fingerprint k.
SettlementsOf(log, k) ==
    {i \in 1..Len(log) : log[i].name = "RebateSettled" /\ log[i].fields[1] = k}

C37_Step ==
    ((last' # last \/ events' # events) /\ last'.op = "claim_rebate") =>
        LET a == last'.args
            paid == SubSeq(itxns', Len(itxns) + 1, Len(itxns'))
        IN  /\ IsPrefix(itxns, itxns')
            /\ ~ValidGroup(a.group, a.oracle_txn_index) =>
                   /\ last'.err \in {NotInAtomicGroup} \cup InvalidOracleTransaction
                   /\ itxns' = itxns /\ events' = events
            /\ (ValidGroup(a.group, a.oracle_txn_index)
                    /\ IsSet(admin_fee_cap) /\ IsSet(usdc_asset_id)) =>
                   last'.err \in {"", InnerTxnRejected}
            /\ last'.err = "" =>
                   /\ IsSet(admin_fee_cap)
                   /\ SumTransfersTo(paid, a.pharmacy_addr) + SumTransfersTo(paid, a.pbm_addr)
                          = a.rebate_amount
                   /\ IsFloorOf(Wide(SumTransfersTo(paid, a.pbm_addr)),
                                WideMul(Wide(a.rebate_amount),
                                        Wide(ValueOf(admin_fee_cap))), 10000)
                   /\ Len(events') = Len(events) + 1
                   /\ SettlementsOf(events', a.claim_key)
                          = SettlementsOf(events, a.claim_key) \cup {Len(events')}

C37_NoSettledRecord == [][C37_Step]_vars

\* A fingerprint settled before is settled again, and the whole amount is
\* disbursed a second time.
C37_Witness ==
    /\ last.op = "claim_rebate" /\ last.err = ""
    /\ Cardinality(SettlementsOf(events, last.args.claim_key)) = 2
    /\ Len(itxns) >= 2
    /\ SumTransfersTo(itxns, "PHARMACY") + SumTransfersTo(itxns, "PBM")
           >= 2 * last.args.rebate_amount

\* The repeated settlement follows an identical earlier one: both entries
\* carry the same amounts.
C37_WitnessSameAmounts ==
    /\ last.op = "claim_rebate" /\ last.err = ""
    /\ \E i, j \in SettlementsOf(events, last.args.claim_key) :
           /\ i < j /\ j = Len(events)
           /\ events[i].fields[4] = events[j].fields[4]
           /\ events[i].fields[5] = events[j].fields[5]
           /\ events[i].fields[4] + events[i].fields[5] = last.args.rebate_amount


(***************************************************************************)
(* C38.  Governance thresholds stay in range and PASSED means a majority:  *)
(* in every reachable state 5000 <= approval_threshold <= 10000, and every *)
(* proposal that finalize_proposal moves to PASSED has, at that moment,    *)
(* yes-votes >= no-votes and yes + no >= the quorum threshold in force.    *)
(***************************************************************************)
C38_InRange == 5000 <= approval_threshold /\ approval_threshold <= 10000

C38_Step ==
    \A p \in ProposalIds :
        (FinalizeCalledOnActive(p) /\ proposal_status'[p] = "PASSED") =>
            /\ proposal_votes[p] >= proposal_votes_against[p]
            /\ proposal_votes[p] + proposal_votes_against[p] >= quorum_threshold
            /\ events'[Len(events')].name = "ProposalPassed"

\* No proposal is PASSED unless finalize_proposal made it so.
C38_PassedOnlyByFinalize ==
    \A p \in DOMAIN proposal_status' :
        (proposal_status'[p] = "PASSED"
            /\ ~(p \in DOMAIN proposal_status /\ proposal_status[p] = "PASSED")) =>
            FinalizeCalledOnActive(p)

C38_MajorityPassed == []C38_InRange /\ [][C38_Step /\ C38_PassedOnlyByFinalize]_vars

\* A proposal passes under a threshold that initialize_governance has set.
C38_Witness ==
    \E p \in DOMAIN proposal_status :
        /\ last.op = "finalize_proposal" /\ last.err = "" /\ last.args.proposal_id = p
        /\ proposal_status[p] = "PASSED"
        /\ approval_threshold = 5000
        /\ proposal_votes[p] >= proposal_votes_against[p]
        /\ \E i \in 1..Len(events) : events[i].name = "GovernanceInitialized"

\* A proposal passes with votes on both sides.
C38_WitnessContested ==
    \E p \in DOMAIN proposal_status :
        /\ last.op = "finalize_proposal" /\ last.err = "" /\ last.args.proposal_id = p
        /\ proposal_status[p] = "PASSED"
        /\ proposal_votes_against[p] > 0
        /\ proposal_votes[p] + proposal_votes_against[p] >= quorum_threshold

\* A proposal with more no-votes than yes-votes that met the quorum is
\* finalized as REJECTED.
C38_WitnessMinority ==
    \E p \in DOMAIN proposal_status :
        /\ last.op = "finalize_proposal" /\ last.err = "" /\ last.args.proposal_id = p
        /\ proposal_status[p] = "REJECTED"
        /\ proposal_votes[p] < proposal_votes_against[p]


(***************************************************************************)
(* C39.  finalize_proposal is total on ACTIVE proposals: for every quorum  *)
(* and approval setting that initialize_governance accepts and every pair  *)
(* of tallies, a proposal with no votes included, finalize_proposal on an  *)
(* ACTIVE proposal completes without error and moves it to exactly one of  *)
(* PASSED, REJECTED or QUORUM_NOT_MET.                                     *)
(***************************************************************************)
C39_Step ==
    \A p \in ProposalIds :
        FinalizeCalledOnActive(p) =>
            /\ last'.err = ""
            /\ proposal_status'[p] \in {"PASSED", "REJECTED", "QUORUM_NOT_MET"}

C39_FinalizeTotal == [][C39_Step]_vars

\* The call completes wherever a vote was cast or the quorum is positive.
C39_StepVoted ==
    \A p \in ProposalIds :
        (FinalizeCalledOnActive(p)
         /\ (proposal_votes[p] + proposal_votes_against[p] > 0 \/ quorum_threshold > 0)) =>
            C39_Step

C39_TotalWhereVoted == [][C39_StepVoted]_vars

\* finalize_proposal aborts on an ACTIVE proposal, which stays ACTIVE.
C39_Aborted ==
    \E p \in DOMAIN proposal_status :
        /\ last.op = "finalize_proposal" /\ last.args.proposal_id = p
        /\ last.err = DivisionByZero
        /\ proposal_status[p] = "ACTIVE"
        /\ quorum_threshold = 0
        /\ proposal_votes[p] = 0 /\ proposal_votes_against[p] = 0


(***************************************************************************)
(* Two pharmacies registered in jurisdictions of their own or in the same  *)
(* one.                                                                    *)
(***************************************************************************)
MaxNeighbourLog == 5        \* log entries a two-pharmacy run may commit
\* <<pharmacy_addr, jurisdiction, fee_bps, kyc_verified>>
NeighbourRegistrations ==
    {<<"P1", "US", 300, TRUE>>, <<"P2", "US", 100, TRUE>>, <<"P2", "US", 301, TRUE>>,
     <<"P2", "CA", 150, FALSE>>}

NextNeighbours ==
    \/ \E r \in NeighbourRegistrations :
           set_jurisdiction(r[1], r[2], r[3], r[4]) /\ Len(events') <= MaxNeighbourLog
    \/ update_exchange_rate("USD", "EUR", 920000) /\ Len(events') <= MaxNeighbourLog
    \/ register_currency("EUR", 31) /\ Len(events') <= MaxNeighbourLog
    \/ \E p \in SettledPharmacies :
           settle_cross_border(<<1>>, Wide(100000000), p, "EUR", 0)
               /\ Len(events') <= MaxNeighbourLog

SpecNeighbours == InitCrossBorder /\ [][NextNeighbours]_vars

(***************************************************************************)
(* C40.  set_jurisdiction for one pharmacy does not affect the others:     *)
(* the call leaves the KYC status and the jurisdiction of every other      *)
(* pharmacy as they were, and a pharmacy's settle_cross_border is charged  *)
(* the fee rate of that pharmacy's own latest registration and passes or   *)
(* fails the cap check by that rate, whatever other pharmacies registered  *)
(* in the same jurisdiction since.                                         *)
(***************************************************************************)
C40_OthersKept ==
    (last'.op = "set_jurisdiction" /\ events' # events) =>
        \A q \in SettledPharmacies \ {last'.args.pharmacy_addr} :
            /\ (q \in DOMAIN kyc_verified') = (q \in DOMAIN kyc_verified)
            /\ (q \in DOMAIN pharmacy_jurisdictions') = (q \in DOMAIN pharmacy_jurisdictions)
            /\ q \in DOMAIN kyc_verified => kyc_verified'[q] = kyc_verified[q]
            /\ q \in DOMAIN pharmacy_jurisdictions =>
                   pharmacy_jurisdictions'[q] = pharmacy_jurisdictions[q]

C40_OwnFee ==
    (last' # last /\ last'.op = "settle_cross_border"
        /\ RegistrationsOf(events, last'.args.pharmacy_addr) # {}) =>
        LET own == LatestRegistration(events, last'.args.pharmacy_addr)
            j == own.fields[2]
            fee_bps == own.fields[3]
            entry == events'[Len(events')]
        IN  /\ last'.err = FeeExceedsJurisdictionCap => fee_bps > ClaimedCap(j)
            /\ last'.err = "" =>
                   /\ fee_bps <= ClaimedCap(j)
                   /\ IsFloorOf(entry.fields[5],
                                WideMul(entry.fields[4], Wide(fee_bps)), 10000)

C40_Independent == [][C40_OthersKept /\ C40_OwnFee]_vars

\* The part of the claim about the other pharmacies' own entries.
C40_OthersEntriesKept == [][C40_OthersKept]_vars

\* A pharmacy is charged the rate another pharmacy registered for the same
\* jurisdiction after it.
C40_ChargedNeighboursRate ==
    /\ last.op = "settle_cross_border" /\ last.err = ""
    /\ LET p == last.args.pharmacy_addr
           log == SubSeq(events, 1, Len(events) - 1)
           j == LatestRegistration(log, p).fields[2]
       IN  /\ LatestRegistration(log, p).fields[3] # FeeInForce(log, j)
           /\ IsFloorOf(events[Len(events)].fields[5],
                        WideMul(events[Len(events)].fields[4],
                                Wide(FeeInForce(log, j))), 10000)

\* A pharmacy registered within the cap is refused after another pharmacy
\* registered the same jurisdiction above the cap.
C40_RefusedForNeighboursRate ==
    /\ last.op = "settle_cross_border" /\ last.err = FeeExceedsJurisdictionCap
    /\ LET own == LatestRegistration(events, last.args.pharmacy_addr)
       IN  /\ own.fields[3] <= ClaimedCap(own.fields[2])
           /\ FeeInForce(events, own.fields[2]) > ClaimedCap(own.fields[2])

====
